---------------------------- MODULE Spec2Model ----------------------------
(***************************************************************************)
(* A model of platypii: PII matches, the overlap resolver                  *)
(* (utils.merge_overlapping_matches), the regex detector and its pattern  *)
(* registry, the detection front ends (PIIDetector, PIIPipeline) and the  *)
(* anonymizer (processors/anonymizer.py).                                  *)
(*                                                                         *)
(* Conventions.  A Python str is a sequence of one-character strings; a    *)
(* slice text[a:b] of 0-based half-open offsets is Slice(text, a, b).  A   *)
(* float confidence is an integer number of hundredths (0.9 is 90): the    *)
(* code only compares confidences.  A PIIMatch is a record with the        *)
(* dataclass's fields pii_type, value, start, end, confidence.             *)
(***************************************************************************)
EXTENDS Integers, Sequences, FiniteSets, TLC

VARIABLES
    text,       \* the text handed to the operation under study
    matches,    \* the match list handed to / produced by the operation
    merged,     \* the last result of merge_overlapping_matches
    remerged,   \* merge_overlapping_matches(merged)
    anon,       \* the Anonymizer object (its attributes)
    method,     \* the anonymization_method argument of the last anonymize_text call
    out,        \* what the last anonymize_text call returned
    pc,         \* which operation has run last
    patterns,   \* the detector's pattern registry (self.patterns), in dict order
    raised,     \* the exception the last operation raised, or "none"
    current_text,     \* the pipeline's context['current_text']
    clean_text_impl,  \* what TextProcessor.clean_text is in this build
    error,      \* the pipeline's context['error'], or "none"
    verdict,    \* what the last Validator call returned, or the exception it raised
    DEFAULT_CONFIG,   \* the contents of the module-level config.DEFAULT_CONFIG object
    engine,     \* the PIIEngine object: which Config object its self.config is
    pipeline    \* the PIIPipeline object: self.steps and self.results

vars == <<text, matches, merged, remerged, anon, method, out, pc,
          patterns, raised, current_text, clean_text_impl, error, verdict,
          DEFAULT_CONFIG, engine, pipeline>>

\* no Validator call has been made
NoVerdict == [raised |-> "none", value |-> FALSE]

\* DEFAULT_CONFIG's detection.confidence_threshold, in hundredths
ConfidenceThreshold == 40

\* the keys of a Config object that the detectors and the anonymizer read:
\* detection.confidence_threshold, the types whose pii_types.<type>.enabled
\* is not False (a type without an entry counts as enabled), and
\* anonymization.default_strategy; here the values Config() starts with
DefaultConfig ==
    [confidence_threshold |-> ConfidenceThreshold,
     disabled |-> {"passport", "license_plate"},
     default_strategy |-> "mask"]

engineVars == <<DEFAULT_CONFIG, engine>>

\* no PIIPipeline has been constructed
NoPipeline == pipeline = [absent |-> TRUE]

\* no PIIEngine has been constructed; DEFAULT_CONFIG is as the import left it
NoEngine ==
    /\ DEFAULT_CONFIG = DefaultConfig
    /\ engine = [absent |-> TRUE]

detectorVars == <<patterns, raised, current_text, clean_text_impl, error, verdict, engineVars, pipeline>>

\* no detector has been constructed
NoDetector ==
    /\ patterns = <<>>
    /\ raised = "none"
    /\ current_text = <<>>
    /\ clean_text_impl = "none"
    /\ error = "none"
    /\ verdict = NoVerdict
    /\ NoEngine
    /\ NoPipeline

---------------------------------------------------------------------------
(* Python str and list helpers *)

\* text[a:b] for 0-based offsets, clamped as Python clamps slice bounds
Slice(s, a, b) ==
    LET lo == IF a < 0 THEN 0 ELSE a
        hi == IF b > Len(s) THEN Len(s) ELSE b
    IN  IF lo >= hi THEN <<>> ELSE SubSeq(s, lo + 1, hi)

\* an object that a specification does not construct
NoObject == [absent |-> TRUE]

\* every sequence over S of length 0..n
SeqsUpTo(S, n) == UNION {[1..k -> S] : k \in 0..n}

---------------------------------------------------------------------------
(* utils.PIIMatch *)

PIIMatch(t, v, s, e, c) ==
    [pii_type |-> t, value |-> v, start |-> s, end |-> e, confidence |-> c]

\* the well-formed matches over a text: 0 <= start < end <= len(text),
\* value the exact substring
MatchesOver(txt, types, confs) ==
    {PIIMatch(t, Slice(txt, s, e), s, e, c) :
        t \in types, s \in 0..(Len(txt) - 1), e \in 1..Len(txt), c \in confs}
    \ {m \in {PIIMatch(t, Slice(txt, s, e), s, e, c) :
        t \in types, s \in 0..(Len(txt) - 1), e \in 1..Len(txt), c \in confs} :
        m.start >= m.end}

---------------------------------------------------------------------------
(* utils.merge_overlapping_matches *)

\* sorted(matches, key=lambda m: m.start): Python's sort is stable, so an
\* element goes after every earlier element whose start is <= its own
RECURSIVE InsertByStart(_, _)
InsertByStart(s, m) ==
    IF s = <<>> THEN <<m>>
    ELSE IF s[Len(s)].start <= m.start THEN Append(s, m)
    ELSE Append(InsertByStart(SubSeq(s, 1, Len(s) - 1), m), s[Len(s)])

RECURSIVE SortedByStart(_)
SortedByStart(ms) ==
    IF ms = <<>> THEN <<>>
    ELSE InsertByStart(SortedByStart(SubSeq(ms, 1, Len(ms) - 1)), ms[Len(ms)])

\* the for loop of merge_overlapping_matches: acc is `merged`, rest the
\* not yet visited tail of sorted_matches
RECURSIVE MergeLoop(_, _)
MergeLoop(acc, rest) ==
    IF rest = <<>> THEN acc
    ELSE LET current == Head(rest)
             last == acc[Len(acc)]
         IN  IF current.start <= last.end
             THEN IF current.confidence > last.confidence
                  THEN MergeLoop([acc EXCEPT ![Len(acc)] = current], Tail(rest))
                  ELSE MergeLoop(acc, Tail(rest))
             ELSE MergeLoop(Append(acc, current), Tail(rest))

\* bug variant: the overlap test looks at the previous element of the sorted
\* list instead of the last kept match (merged[-1])
RECURSIVE MergeLoopPrev(_, _, _)
MergeLoopPrev(acc, prev, rest) ==
    IF rest = <<>> THEN acc
    ELSE LET current == Head(rest)
             last == acc[Len(acc)]
         IN  IF current.start <= prev.end
             THEN IF current.confidence > last.confidence
                  THEN MergeLoopPrev([acc EXCEPT ![Len(acc)] = current], current, Tail(rest))
                  ELSE MergeLoopPrev(acc, current, Tail(rest))
             ELSE MergeLoopPrev(Append(acc, current), current, Tail(rest))

merge_prev_element(ms) ==
    IF ms = <<>> THEN <<>>
    ELSE LET s == SortedByStart(ms) IN MergeLoopPrev(<<s[1]>>, s[1], Tail(s))

\* bug variant: a higher-confidence conflicting match is appended instead of
\* replacing merged[-1]
RECURSIVE MergeLoopAppend(_, _)
MergeLoopAppend(acc, rest) ==
    IF rest = <<>> THEN acc
    ELSE LET current == Head(rest)
             last == acc[Len(acc)]
         IN  IF current.start <= last.end
             THEN IF current.confidence > last.confidence
                  THEN MergeLoopAppend(Append(acc, current), Tail(rest))
                  ELSE MergeLoopAppend(acc, Tail(rest))
             ELSE MergeLoopAppend(Append(acc, current), Tail(rest))

merge_append_winner(ms) ==
    IF ms = <<>> THEN <<>>
    ELSE LET s == SortedByStart(ms) IN MergeLoopAppend(<<s[1]>>, Tail(s))

\* bug variant: on equal confidence the newcomer replaces merged[-1]
RECURSIVE MergeLoopTie(_, _)
MergeLoopTie(acc, rest) ==
    IF rest = <<>> THEN acc
    ELSE LET current == Head(rest)
             last == acc[Len(acc)]
         IN  IF current.start <= last.end
             THEN IF current.confidence >= last.confidence
                  THEN MergeLoopTie([acc EXCEPT ![Len(acc)] = current], Tail(rest))
                  ELSE MergeLoopTie(acc, Tail(rest))
             ELSE MergeLoopTie(Append(acc, current), Tail(rest))

merge_tie_newcomer(ms) ==
    IF ms = <<>> THEN <<>>
    ELSE LET s == SortedByStart(ms) IN MergeLoopTie(<<s[1]>>, Tail(s))

\* bug variant: only a strict overlap (current.start < last.end) conflicts
RECURSIVE MergeLoopStrict(_, _)
MergeLoopStrict(acc, rest) ==
    IF rest = <<>> THEN acc
    ELSE LET current == Head(rest)
             last == acc[Len(acc)]
         IN  IF current.start < last.end
             THEN IF current.confidence > last.confidence
                  THEN MergeLoopStrict([acc EXCEPT ![Len(acc)] = current], Tail(rest))
                  ELSE MergeLoopStrict(acc, Tail(rest))
             ELSE MergeLoopStrict(Append(acc, current), Tail(rest))

merge_touching_apart(ms) ==
    IF ms = <<>> THEN <<>>
    ELSE LET s == SortedByStart(ms) IN MergeLoopStrict(<<s[1]>>, Tail(s))

\* bug variant: the lower confidence wins a conflict
RECURSIVE MergeLoopLower(_, _)
MergeLoopLower(acc, rest) ==
    IF rest = <<>> THEN acc
    ELSE LET current == Head(rest)
             last == acc[Len(acc)]
         IN  IF current.start <= last.end
             THEN IF current.confidence < last.confidence
                  THEN MergeLoopLower([acc EXCEPT ![Len(acc)] = current], Tail(rest))
                  ELSE MergeLoopLower(acc, Tail(rest))
             ELSE MergeLoopLower(Append(acc, current), Tail(rest))

merge_keep_lower(ms) ==
    IF ms = <<>> THEN <<>>
    ELSE LET s == SortedByStart(ms) IN MergeLoopLower(<<s[1]>>, Tail(s))

merge_overlapping_matches(ms) ==
    IF ms = <<>> THEN <<>>
    ELSE LET s == SortedByStart(ms) IN MergeLoop(<<s[1]>>, Tail(s))

---------------------------------------------------------------------------
(* The overlap resolver applied to every bounded match list *)

MaxMatches == 3

MergeText == <<"a", "b", "c">>
Confidences == {50, 90, 95}

MergeInit ==
    /\ text = MergeText
    /\ matches \in SeqsUpTo(MatchesOver(MergeText, {"email"}, Confidences), MaxMatches)
    /\ merged = <<>>
    /\ remerged = <<>>
    /\ anon = NoObject
    /\ method = "None"
    /\ out = <<>>
    /\ pc = "start"
    /\ NoDetector

\* merged = merge_overlapping_matches(matches)
Merge ==
    /\ pc = "start"
    /\ merged' = merge_overlapping_matches(matches)
    /\ pc' = "merged"
    /\ UNCHANGED <<text, matches, remerged, anon, method, out, detectorVars>>

\* remerged = merge_overlapping_matches(merged)
Remerge ==
    /\ pc = "merged"
    /\ remerged' = merge_overlapping_matches(merged)
    /\ pc' = "remerged"
    /\ UNCHANGED <<text, matches, merged, anon, method, out, detectorVars>>

MergeNext == Merge \/ Remerge

SpecMerge == MergeInit /\ [][MergeNext]_vars

---------------------------------------------------------------------------
(* Claims about the overlap resolver *)

\* half-open spans [start, end) intersect
Overlaps(a, b) == a.start < b.end /\ b.start < a.end

Survives(m, ms) == \E k \in 1..Len(ms) : ms[k] = m

\* C1: the list returned by merge_overlapping_matches is sorted ascending by
\* start, every adjacent pair (a, b) has a.end <= b.start, and no two returned
\* spans intersect.
C1_MergeNonOverlapping ==
    pc \in {"merged", "remerged"} =>
        /\ \A i \in 1..(Len(merged) - 1) :
              /\ merged[i].start <= merged[i + 1].start
              /\ merged[i].end <= merged[i + 1].start
        /\ \A i, j \in 1..Len(merged) : i # j => ~Overlaps(merged[i], merged[j])

\* C1 witness: a merge that dropped an overlapping match and still returned
\* two matches
C1_Witness ==
    /\ pc = "merged"
    /\ Len(merged) >= 2
    /\ Len(merged) < Len(matches)
    /\ \E i, j \in 1..Len(matches) : i # j /\ Overlaps(matches[i], matches[j])

\* C3: confidence dominance -- no match is in the output of the merge while an
\* input match that overlaps it and has strictly higher confidence has been
\* discarded.
C3_ConfidenceDominance ==
    pc = "merged" =>
        \A i \in 1..Len(matches) : \A o \in 1..Len(merged) :
            (Overlaps(matches[i], merged[o])
                /\ matches[i].confidence > merged[o].confidence)
            => Survives(matches[i], merged)

\* C4: merge_overlapping_matches is idempotent: merging the merged list gives
\* the same sequence of matches.
C4_MergeIdempotent ==
    pc = "remerged" => remerged = merged

\* C4 witness: a second merge of a list that the first merge had shortened to
\* two or more matches
C4_Witness ==
    /\ pc = "remerged"
    /\ Len(merged) >= 2
    /\ Len(merged) < Len(matches)

---------------------------------------------------------------------------
(* Python str methods used by the anonymizer and the detectors *)

\* c.isspace() for the characters of the model
IsSpace(c) == c \in {" ", "\n", "\t"}

\* c in s
Contains(s, c) == \E i \in 1..Len(s) : s[i] = c

\* s.strip()
RECURSIVE LStrip(_)
LStrip(s) == IF s # <<>> /\ IsSpace(Head(s)) THEN LStrip(Tail(s)) ELSE s

RECURSIVE RStrip(_)
RStrip(s) ==
    IF s # <<>> /\ IsSpace(s[Len(s)]) THEN RStrip(SubSeq(s, 1, Len(s) - 1)) ELSE s

Strip(s) == RStrip(LStrip(s))

\* len(s.split()): the number of maximal runs of non-whitespace characters
WordCount(s) ==
    Cardinality({i \in 1..Len(s) :
        ~IsSpace(s[i]) /\ (i = 1 \/ IsSpace(s[i - 1]))})

\* len(s.split(c)): one more than the number of occurrences of c
SplitCount(s, c) == Cardinality({i \in 1..Len(s) : s[i] = c}) + 1

\* s * n
RECURSIVE Repeat(_, _)
Repeat(s, n) == IF n <= 0 THEN <<>> ELSE s \o Repeat(s, n - 1)

---------------------------------------------------------------------------
(* config.Config._load_default_config: the "anonymization" section *)

DefaultReplacementPatterns ==
    [t \in {"email", "phone", "ssn", "credit_card", "ip_address", "name",
            "address", "date", "passport", "license_plate"} |->
        CASE t = "email" -> <<"[", "E", "M", "A", "I", "L", "]">>
          [] t = "phone" -> <<"[", "P", "H", "O", "N", "E", "]">>
          [] t = "ssn" -> <<"[", "S", "S", "N", "]">>
          [] t = "credit_card" ->
                <<"[", "C", "R", "E", "D", "I", "T", "_", "C", "A", "R", "D", "]">>
          [] t = "ip_address" ->
                <<"[", "I", "P", "_", "A", "D", "D", "R", "E", "S", "S", "]">>
          [] t = "name" -> <<"[", "N", "A", "M", "E", "]">>
          [] t = "address" -> <<"[", "A", "D", "D", "R", "E", "S", "S", "]">>
          [] t = "date" -> <<"[", "D", "A", "T", "E", "]">>
          [] t = "passport" -> <<"[", "P", "A", "S", "S", "P", "O", "R", "T", "]">>
          [] OTHER ->
                <<"[", "L", "I", "C", "E", "N", "S", "E", "_", "P", "L", "A", "T", "E", "]">>]

---------------------------------------------------------------------------
(* processors/anonymizer.py: class Anonymizer *)

\* Anonymizer.__init__ on a configuration whose anonymization.default_strategy
\* is `strategy` and whose other anonymization keys are the defaults
Anonymizer(strategy) ==
    [default_method |-> strategy,
     mask_char |-> <<"*">>,
     preserve_length |-> TRUE,
     preserve_format |-> FALSE,
     replacement_patterns |-> DefaultReplacementPatterns,
     hash_salt |-> <<"p", "l", "a", "t", "y", "p", "i", "i", "_", "s", "a", "l", "t",
                     "_", "2", "0", "2", "4">>]

anonymization_methods == {"mask", "redact", "hash", "replace", "synthetic"}

\* Anonymizer._mask_with_format (its last line, the call back into
\* _mask_value, is unreachable from _mask_value: the three types all return)
mask_with_format(value, pii_type) ==
    CASE pii_type = "ssn" ->
            IF Contains(value, "-")
            THEN <<"X", "X", "X", "-", "X", "X", "-", "X", "X", "X", "X">>
            ELSE Repeat(<<"X">>, 9)
      [] pii_type = "phone" ->
            IF Contains(value, "(") /\ Contains(value, ")")
            THEN <<"(", "X", "X", "X", ")", " ", "X", "X", "X", "-", "X", "X", "X", "X">>
            ELSE IF Contains(value, "-") /\ SplitCount(value, "-") = 3
            THEN <<"X", "X", "X", "-", "X", "X", "X", "-", "X", "X", "X", "X">>
            ELSE Repeat(<<"X">>, 10)
      [] OTHER ->
            IF Contains(value, "-") \/ Contains(value, " ")
            THEN <<"X", "X", "X", "X", "-", "X", "X", "X", "X", "-",
                   "X", "X", "X", "X", "-", "X", "X", "X", "X">>
            ELSE Repeat(<<"X">>, 16)

\* the preserve_length loop of Anonymizer._mask_value
RECURSIVE MaskChars(_, _)
MaskChars(value, mask_char) ==
    IF value = <<>> THEN <<>>
    ELSE (IF IsSpace(Head(value)) \/ Head(value) \in {"-", "(", ")", "/", "@"}
          THEN <<Head(value)>>
          ELSE mask_char) \o MaskChars(Tail(value), mask_char)

\* Anonymizer._mask_value
mask_value(a, value, pii_type) ==
    IF a.preserve_format /\ pii_type \in {"ssn", "phone", "credit_card"}
    THEN mask_with_format(value, pii_type)
    ELSE IF a.preserve_length
    THEN MaskChars(value, a.mask_char)
    ELSE Repeat(a.mask_char, 5)

\* Anonymizer._redact_value
redact_value == <<"[", "R", "E", "D", "A", "C", "T", "E", "D", "]">>

\* hashlib.sha256(...).hexdigest()[:8] is abstracted to a two-digit digest: a
\* deterministic function of the hashed characters (their count and the
\* positions of the letters), written in the hex alphabet
HexDigit(n) ==
    <<"0", "1", "2", "3", "4", "5", "6", "7",
      "8", "9", "a", "b", "c", "d", "e", "f">>[(n % 16) + 1]

RECURSIVE Digest(_, _)
Digest(s, h) ==
    IF s = <<>> THEN h
    ELSE Digest(Tail(s), (h * 3 + (IF IsSpace(Head(s)) THEN 1 ELSE 2)) % 256)

\* bug variant: the type of the match goes into the hashed string
hash_value_typed(a, value, pii_type) ==
    LET h == Digest(value \o a.hash_salt \o (IF pii_type = "email" THEN <<"e">> ELSE <<>>), 7)
    IN  <<"[", "H", "A", "S", "H", ":">> \o <<HexDigit(h \div 16), HexDigit(h)>> \o <<"]">>

\* Anonymizer._hash_value
hash_value(a, value, pii_type) ==
    LET h == Digest(value \o a.hash_salt, 7)
    IN  <<"[", "H", "A", "S", "H", ":">> \o <<HexDigit(h \div 16), HexDigit(h)>> \o <<"]">>

\* Anonymizer._replace_value: replacement_patterns.get(pii_type, value)
replace_value(a, value, pii_type) ==
    IF pii_type \in DOMAIN a.replacement_patterns
    THEN a.replacement_patterns[pii_type]
    ELSE value

\* Anonymizer._generate_synthetic.  A name whose value does not split into
\* exactly two parts falls off the end of the function, which returns None:
\* None is the empty sequence here, since the caller only tests `if
\* anonymized_value`, false for None and for ''.
generate_synthetic(a, value, pii_type) ==
    CASE pii_type = "name" ->
            IF WordCount(value) = 2
            THEN <<"J", "o", "h", "n", " ", "S", "m", "i", "t", "h">>
            ELSE <<>>
      [] pii_type = "email" ->
            <<"u", "s", "e", "r", "@", "d", "o", "m", "a", "i", "n", ".", "c", "o", "m">>
      [] pii_type = "phone" ->
            IF Contains(value, "(")
            THEN <<"(", "1", "2", "3", ")", " ", "4", "5", "6", "-", "7", "8", "9", "0">>
            ELSE <<"1", "2", "3", "-", "4", "5", "6", "-", "7", "8", "9", "0">>
      [] pii_type = "ssn" ->
            IF Contains(value, "-")
            THEN <<"1", "1", "1", "-", "1", "1", "-", "1", "1", "1", "1">>
            ELSE Repeat(<<"1">>, 9)
      [] pii_type = "address" ->
            <<"1", "2", "3", " ", "M", "a", "i", "n", " ", "S", "t", "r", "e", "e", "t">>
      [] pii_type = "date" ->
            <<"0", "1", "/", "0", "1", "/", "1", "9", "7", "0">>
      [] OTHER -> replace_value(a, value, pii_type)

\* Anonymizer._anonymize_value
anonymize_value(a, match, m) ==
    CASE m = "mask" -> mask_value(a, match.value, match.pii_type)
      [] m = "redact" -> redact_value
      [] m = "hash" -> hash_value(a, match.value, match.pii_type)
      [] m = "replace" -> replace_value(a, match.value, match.pii_type)
      [] m = "synthetic" -> generate_synthetic(a, match.value, match.pii_type)
      [] OTHER -> mask_value(a, match.value, match.pii_type)

\* sorted(matches, key=lambda m: m.start, reverse=True): stable, so an element
\* goes after every earlier element whose start is >= its own
RECURSIVE InsertByStartDesc(_, _)
InsertByStartDesc(s, m) ==
    IF s = <<>> THEN <<m>>
    ELSE IF s[Len(s)].start >= m.start THEN Append(s, m)
    ELSE Append(InsertByStartDesc(SubSeq(s, 1, Len(s) - 1), m), s[Len(s)])

RECURSIVE SortedByStartDesc(_)
SortedByStartDesc(ms) ==
    IF ms = <<>> THEN <<>>
    ELSE InsertByStartDesc(SortedByStartDesc(SubSeq(ms, 1, Len(ms) - 1)), ms[Len(ms)])

\* the for loop of Anonymizer.anonymize_text over sorted_matches
RECURSIVE SpliceLoop(_, _, _, _)
SpliceLoop(a, anonymized_text, rest, m) ==
    IF rest = <<>> THEN anonymized_text
    ELSE LET match == Head(rest)
             anonymized_value == anonymize_value(a, match, m)
         IN  SpliceLoop(a,
                 IF anonymized_value # <<>>
                 THEN Slice(anonymized_text, 0, match.start) \o anonymized_value
                        \o Slice(anonymized_text, match.end, Len(anonymized_text))
                 ELSE anonymized_text,
                 Tail(rest), m)

\* bug variant: an absent or unknown method falls back to mask, not to
\* self.default_method
effective_method_mask(a, m) ==
    IF m = "None" \/ m \notin anonymization_methods THEN "mask" ELSE m

\* the strategy anonymize_text runs: the argument when it names one of the
\* five methods, else self.default_method ("None" is the absent argument)
effective_method(a, m) ==
    IF m = "None" \/ m \notin anonymization_methods THEN a.default_method ELSE m

\* bug variant: the matches are spliced in ascending start order
anonymize_text_ascending(a, txt, ms, m) ==
    IF txt = <<>> \/ ms = <<>> THEN txt
    ELSE SpliceLoop(a, txt, SortedByStart(ms), effective_method(a, m))

\* bug variant: only an empty match list returns early, an empty text is
\* spliced like any other
anonymize_text_unguarded(a, txt, ms, m) ==
    IF ms = <<>> THEN txt
    ELSE SpliceLoop(a, txt, SortedByStartDesc(ms), effective_method(a, m))

\* Anonymizer.anonymize_text
anonymize_text(a, txt, ms, m) ==
    IF txt = <<>> \/ ms = <<>> THEN txt
    ELSE SpliceLoop(a, txt, SortedByStartDesc(ms), effective_method(a, m))

---------------------------------------------------------------------------
(* The anonymizer applied to every bounded text, match list and strategy *)

MaxAnonMatches == 2

\* sample texts: letters only, a blank inside, a blank at either edge, empty
AnonTexts ==
    {<<>>, <<"a", "a", "a">>, <<"a", " ", "a">>, <<"a", "a", " ">>, <<" ", "a", "a">>}
AnonTypes == {"email", "name", "driver_license"}
\* the anonymization_method argument: absent, the five methods, an unknown name
AnonMethods == {"None", "bogus"} \cup anonymization_methods
\* anonymization.default_strategy of the configuration: the default, another
\* method, a name that is no method
DefaultStrategies == {"mask", "redact", "bogus"}
ShortPatterns == {<<"#">>}

\* the matches a caller can hand over for a text: the well-formed ones and
\* those whose value was stripped while the offsets were not
\* (RegexDetector._find_pattern_matches)
AnonMatchesOver(txt) ==
    LET wf == MatchesOver(txt, AnonTypes, {90})
    IN  wf \cup {[m EXCEPT !.value = Strip(m.value)] : m \in {x \in wf : Strip(x.value) # <<>>}}

\* an Anonymizer on the default configuration, a text and a match list
AnonInit ==
    /\ text \in AnonTexts
    /\ matches \in SeqsUpTo(AnonMatchesOver(text), MaxAnonMatches)
    /\ anon = Anonymizer("mask")
    /\ merged = <<>>
    /\ remerged = <<>>
    /\ method = "None"
    /\ out = <<>>
    /\ pc = "ready"
    /\ NoDetector

\* Anonymizer.set_replacement_pattern (once per anonymizer in this model)
SetReplacementPattern ==
    /\ pc = "ready"
    /\ anon.replacement_patterns = DefaultReplacementPatterns
    /\ \E t \in AnonTypes : \E p \in ShortPatterns :
          anon' = [anon EXCEPT !.replacement_patterns =
                      [x \in (DOMAIN @) \cup {t} |-> IF x = t THEN p ELSE @[x]]]
    /\ UNCHANGED <<text, matches, merged, remerged, method, out, pc, detectorVars>>

\* out = anon.anonymize_text(text, matches, m)
AnonymizeText ==
    /\ pc = "ready"
    /\ \E m \in AnonMethods :
          /\ method' = m
          /\ out' = anonymize_text(anon, text, matches, m)
    /\ pc' = "anonymized"
    /\ UNCHANGED <<text, matches, merged, remerged, anon, detectorVars>>

AnonNext == SetReplacementPattern \/ AnonymizeText

SpecAnon == AnonInit /\ [][AnonNext]_vars

\* Anonymizers built from configurations that differ in
\* anonymization.default_strategy
FallbackInit ==
    /\ text \in AnonTexts
    /\ matches \in SeqsUpTo(AnonMatchesOver(text), MaxAnonMatches)
    /\ anon \in {Anonymizer(d) : d \in DefaultStrategies}
    /\ merged = <<>>
    /\ remerged = <<>>
    /\ method = "None"
    /\ out = <<>>
    /\ pc = "ready"
    /\ NoDetector

SpecFallback == FallbackInit /\ [][AnonymizeText]_vars

---------------------------------------------------------------------------
(* Claims about the anonymizer *)

RECURSIVE IsSubseq(_, _)
IsSubseq(s, t) ==
    IF s = <<>> THEN TRUE
    ELSE IF t = <<>> THEN FALSE
    ELSE IF Head(s) = Head(t) THEN IsSubseq(Tail(s), Tail(t))
    ELSE IsSubseq(s, Tail(t))

InSomeSpan(i, ms) == \E k \in 1..Len(ms) : ms[k].start <= i /\ i < ms[k].end

\* the characters of txt at the 0-based offsets outside every match span
RECURSIVE OutsideFrom(_, _, _)
OutsideFrom(txt, ms, i) ==
    IF i >= Len(txt) THEN <<>>
    ELSE (IF InSomeSpan(i, ms) THEN <<>> ELSE <<txt[i + 1]>>) \o OutsideFrom(txt, ms, i + 1)

OutsideChars(txt, ms) == OutsideFrom(txt, ms, 0)

InsideText(ms, txt) ==
    \A k \in 1..Len(ms) : 0 <= ms[k].start /\ ms[k].start < ms[k].end /\ ms[k].end <= Len(txt)

PairwiseDisjoint(ms) ==
    \A i, j \in 1..Len(ms) : i # j => ~Overlaps(ms[i], ms[j])

\* sorted ascending by start, non-overlapping, inside the text
Resolved(ms, txt) ==
    /\ InsideText(ms, txt)
    /\ \A i \in 1..(Len(ms) - 1) : ms[i].end <= ms[i + 1].start

\* gap0 + r1 + gap1 + ... + rn + gapn for matches ms in ascending order, from
\* offset pos on; ri is the strategy's replacement of match i, and with `keep`
\* an empty replacement stands for the span's own characters
RECURSIVE GapsAndReplacements(_, _, _, _, _, _)
GapsAndReplacements(a, txt, ms, m, pos, keep) ==
    IF ms = <<>> THEN Slice(txt, pos, Len(txt))
    ELSE LET r == anonymize_value(a, Head(ms), m)
         IN  Slice(txt, pos, Head(ms).start)
             \o (IF keep /\ r = <<>> THEN Slice(txt, Head(ms).start, Head(ms).end) ELSE r)
             \o GapsAndReplacements(a, txt, Tail(ms), m, Head(ms).end, keep)

\* C2 (as amended): for a match set whose spans are pairwise disjoint and inside
\* the text, and any strategy, anonymize_text returns the gaps between the
\* spans unchanged and in order around the per-match replacements, so every
\* character outside all match spans is preserved in its relative order.
C2_OffsetSafetyDisjoint ==
    (pc = "anonymized" /\ matches # <<>> /\ PairwiseDisjoint(matches))
    => /\ out = GapsAndReplacements(anon, text, SortedByStart(matches),
                    effective_method(anon, method), 0, TRUE)
       /\ IsSubseq(OutsideChars(text, matches), out)

\* C2 witness: two disjoint matches, a replacement whose length differs from
\* its span, and a character outside both spans
C2_Witness ==
    /\ pc = "anonymized"
    /\ Len(matches) = 2
    /\ PairwiseDisjoint(matches)
    /\ OutsideChars(text, matches) # <<>>
    /\ Len(out) # Len(text)

\* C2 (original): for any match set, overlapping or duplicate spans included,
\* every character outside all match spans appears unchanged and in the same
\* relative order in the output.
C2_OffsetSafetyAnyMatchSet ==
    (pc = "anonymized" /\ InsideText(matches, text)
        /\ \A k \in 1..Len(matches) : matches[k].value = Slice(text, matches[k].start, matches[k].end))
    => IsSubseq(OutsideChars(text, matches), out)

\* C5: for a resolved match set and any strategy, anonymize_text returns
\* gap0 + r1 + gap1 + ... + rn + gapn with ri the strategy's replacement of
\* match i: every span is replaced.
C5_EverySpanReplaced ==
    (pc = "anonymized" /\ matches # <<>> /\ Resolved(matches, text))
    => out = GapsAndReplacements(anon, text, matches,
                  effective_method(anon, method), 0, FALSE)

\* C8 (as amended): an anonymization_method outside the five methods does not
\* raise and gives the output of the anonymizer's default_method; that is the
\* mask output when default_method is mask or is itself no method.
C8_UnknownFallsBackToDefault ==
    (pc = "anonymized" /\ method \notin anonymization_methods /\ method # "None")
    => /\ out = anonymize_text(anon, text, matches, anon.default_method)
       /\ (anon.default_method \notin anonymization_methods \/ anon.default_method = "mask")
             => out = anonymize_text(anon, text, matches, "mask")

\* C8 witness: an unknown method on an anonymizer whose default is redact
C8_Witness ==
    /\ pc = "anonymized"
    /\ method = "bogus"
    /\ anon.default_method = "redact"
    /\ matches # <<>>
    /\ out # text

\* C8 (original): an anonymization_method outside the five methods gives the
\* output of the mask strategy, whatever the configured default strategy.
C8_UnknownFallsBackToMask ==
    (pc = "anonymized" /\ method \notin anonymization_methods /\ method # "None")
    => out = anonymize_text(anon, text, matches, "mask")

ValidMatch(m) == m.end - m.start = Len(m.value)

\* C10: a match whose end - start differs from len(value) is never spliced: the
\* output is the anonymization of the remaining matches.
C10_InvalidMatchDropped ==
    pc = "anonymized"
    => out = anonymize_text(anon, text, SelectSeq(matches, ValidMatch), method)

---------------------------------------------------------------------------
(* Python's re module, for the patterns of the detectors and validators.    *)
(* A compiled pattern is a sequence of atoms:                               *)
(*   Cls(cs, lo, hi)  a character of the set cs, lo to hi times, greedy     *)
(*                    (hi = -1: unbounded)                                  *)
(*   Grp(body, lo, hi) the group (?:body), lo to hi times, greedy           *)
(*   Alt(alts)        (?:alts[1]|alts[2]|...), leftmost alternative first   *)
(*   WordB            \b                                                    *)
(*   EndAnchor        $                                                     *)
(* Every pattern of the repository is searched with re.IGNORECASE or holds  *)
(* both cases already, so a letter class holds both cases.                  *)

Digits == {"0", "1", "2", "3", "4", "5", "6", "7", "8", "9"}
Lower == {"a", "b", "c", "d", "e", "f", "g", "h", "i", "j", "k", "l", "m",
          "n", "o", "p", "q", "r", "s", "t", "u", "v", "w", "x", "y", "z"}
Upper == {"A", "B", "C", "D", "E", "F", "G", "H", "I", "J", "K", "L", "M",
          "N", "O", "P", "Q", "R", "S", "T", "U", "V", "W", "X", "Y", "Z"}
Letters == Lower \cup Upper
Whitespace == {" ", "\n", "\t"}
WordChars == Letters \cup Digits \cup {"_"}

Cls(cs, lo, hi) == [k |-> "cls", cs |-> cs, lo |-> lo, hi |-> hi]
Grp(body, lo, hi) == [k |-> "grp", body |-> body, lo |-> lo, hi |-> hi]
Alt(alts) == [k |-> "alt", alts |-> alts]
WordB == [k |-> "b"]
EndAnchor == [k |-> "end"]
One(cs) == Cls(cs, 1, 1)
Opt(cs) == Cls(cs, 0, 1)

\* a literal word under re.IGNORECASE: each letter in both cases
LitChar(c) ==
    IF c \in Letters
    THEN One({x \in Letters : \E i \in 1..26 :
                 LET lo == <<"a", "b", "c", "d", "e", "f", "g", "h", "i", "j", "k", "l", "m",
                             "n", "o", "p", "q", "r", "s", "t", "u", "v", "w", "x", "y", "z">>
                     up == <<"A", "B", "C", "D", "E", "F", "G", "H", "I", "J", "K", "L", "M",
                             "N", "O", "P", "Q", "R", "S", "T", "U", "V", "W", "X", "Y", "Z">>
                 IN  c \in {lo[i], up[i]} /\ x \in {lo[i], up[i]}})
    ELSE One({c})

Lit(w) == [i \in 1..Len(w) |-> LitChar(w[i])]

\* \b at 0-based offset pos: exactly one side is a word character
AtWordBoundary(txt, pos) ==
    (pos > 0 /\ txt[pos] \in WordChars) # (pos < Len(txt) /\ txt[pos + 1] \in WordChars)

\* how many characters from offset pos on are in cs, counting at most hi
RECURSIVE RunLength(_, _, _, _)
RunLength(txt, pos, cs, hi) ==
    IF hi = 0 \/ pos >= Len(txt) \/ txt[pos + 1] \notin cs THEN 0
    ELSE 1 + RunLength(txt, pos + 1, cs, IF hi < 0 THEN hi ELSE hi - 1)

\* the backtracking matcher: the end offset of the match of atoms that starts
\* at offset pos, or -1
RECURSIVE MatchFrom(_, _, _)
RECURSIVE TryCount(_, _, _, _, _)
RECURSIVE TryAlts(_, _, _, _)
MatchFrom(atoms, txt, pos) ==
    IF atoms = <<>> THEN pos
    ELSE LET a == Head(atoms)
             rest == Tail(atoms)
         IN  CASE a.k = "b" ->
                    IF AtWordBoundary(txt, pos) THEN MatchFrom(rest, txt, pos) ELSE -1
               [] a.k = "end" ->
                    IF pos = Len(txt) \/ (pos = Len(txt) - 1 /\ txt[Len(txt)] = "\n")
                    THEN MatchFrom(rest, txt, pos) ELSE -1
               [] a.k = "cls" ->
                    LET run == RunLength(txt, pos, a.cs, a.hi)
                    IN  IF run < a.lo THEN -1 ELSE TryCount(rest, txt, pos, run, a.lo)
               [] a.k = "grp" ->
                    LET more == IF a.hi = 0 THEN -1
                                ELSE MatchFrom(a.body
                                        \o <<Grp(a.body, IF a.lo > 0 THEN a.lo - 1 ELSE 0,
                                                 IF a.hi < 0 THEN a.hi ELSE a.hi - 1)>>
                                        \o rest, txt, pos)
                    IN  IF more # -1 THEN more
                        ELSE IF a.lo = 0 THEN MatchFrom(rest, txt, pos) ELSE -1
               [] OTHER -> TryAlts(a.alts, rest, txt, pos)

TryCount(rest, txt, pos, n, lo) ==
    IF n < lo THEN -1
    ELSE LET e == MatchFrom(rest, txt, pos + n)
         IN  IF e # -1 THEN e ELSE TryCount(rest, txt, pos, n - 1, lo)

TryAlts(alts, rest, txt, pos) ==
    IF alts = <<>> THEN -1
    ELSE LET e == MatchFrom(Head(alts) \o rest, txt, pos)
         IN  IF e # -1 THEN e ELSE TryAlts(Tail(alts), rest, txt, pos)

\* re.finditer(pattern, txt): the leftmost non-overlapping matches, as
\* [start, end) offset pairs; the scan resumes at the end of a match (one
\* further after an empty match)
RECURSIVE FindIterFrom(_, _, _)
FindIterFrom(atoms, txt, pos) ==
    IF pos > Len(txt) THEN <<>>
    ELSE LET e == MatchFrom(atoms, txt, pos)
         IN  IF e = -1 THEN FindIterFrom(atoms, txt, pos + 1)
             ELSE <<[start |-> pos, end |-> e]>>
                    \o FindIterFrom(atoms, txt, IF e = pos THEN pos + 1 ELSE e)

finditer(atoms, txt) == FindIterFrom(atoms, txt, 0)

\* re.match(pattern, txt): a match at offset 0
re_match(atoms, txt) == MatchFrom(atoms, txt, 0) # -1

\* re.sub(r'[cs]', '', txt)
RemoveChars(txt, cs) == SelectSeq(txt, LAMBDA c : c \notin cs)

---------------------------------------------------------------------------
(* utils.Validator and the Python built-ins it uses *)

\* str.split(sep) with a one-character separator
RECURSIVE SplitOn(_, _)
SplitOn(s, sep) ==
    IF \A i \in 1..Len(s) : s[i] # sep THEN <<s>>
    ELSE LET i == CHOOSE x \in 1..Len(s) : s[x] = sep /\ \A j \in 1..(x - 1) : s[j] # sep
         IN  <<SubSeq(s, 1, i - 1)>> \o SplitOn(SubSeq(s, i + 1, Len(s)), sep)

DigitValue(c) == CHOOSE n \in 0..9 : <<"0", "1", "2", "3", "4", "5", "6", "7", "8", "9">>[n + 1] = c

RECURSIVE DigitsValue(_)
DigitsValue(ds) ==
    IF ds = <<>> THEN 0 ELSE 10 * DigitsValue(SubSeq(ds, 1, Len(ds) - 1)) + DigitValue(ds[Len(ds)])

\* int(s): surrounding whitespace, an optional sign, digits with single
\* underscores between them.  ParsesAsInt is "int(s) does not raise ValueError".
IntBody(s) ==
    LET t == Strip(s)
    IN  IF t # <<>> /\ t[1] \in {"+", "-"} THEN Tail(t) ELSE t

ParsesAsInt(s) ==
    LET b == IntBody(s)
    IN  /\ b # <<>>
        /\ \A i \in 1..Len(b) : b[i] \in Digits \cup {"_"}
        /\ b[1] # "_" /\ b[Len(b)] # "_"
        /\ \A i \in 1..(Len(b) - 1) : ~(b[i] = "_" /\ b[i + 1] = "_")

IntOf(s) ==
    LET t == Strip(s)
        v == DigitsValue(RemoveChars(IntBody(s), {"_"}))
    IN  IF t[1] = "-" THEN 0 - v ELSE v

\* characters that str.isdigit() accepts and int() rejects: "sup2" stands for
\* the one character SUPERSCRIPT TWO (U+00B2)
NonDecimalDigits == {"sup2"}

\* str.isdigit() on the model's alphabet
IsDigitStr(s) == s # <<>> /\ \A i \in 1..Len(s) : s[i] \in Digits \cup NonDecimalDigits

EmailLocalChars == Letters \cup Digits \cup {".", "_", "%", "+", "-"}
EmailDomainChars == Letters \cup Digits \cup {".", "-"}

validate_email(email) ==
    re_match(<<Cls(EmailLocalChars, 1, -1), One({"@"}), Cls(EmailDomainChars, 1, -1),
               One({"."}), Cls(Letters, 2, -1), EndAnchor>>, email)

PhoneSeparators == {"-", ".", "(", ")", "+"} \cup Whitespace

PhonePatterns ==
    << <<Cls(Digits, 10, 10), EndAnchor>>,
       <<One({"1"}), Cls(Digits, 10, 10), EndAnchor>>,
       <<One({"+"}), One({"1"}), Cls(Digits, 10, 10), EndAnchor>>,
       <<One({"+"}), Cls(Digits, 10, 15), EndAnchor>> >>

validate_phone(phone) ==
    LET clean_phone == RemoveChars(phone, PhoneSeparators)
    IN  \E i \in 1..Len(PhonePatterns) : re_match(PhonePatterns[i], clean_phone)

\* bug variant: the group and the serial are not looked at
validate_ssn_area_only(ssn) ==
    LET clean_ssn == RemoveChars(ssn, {"-"} \cup Whitespace)
        area == Slice(clean_ssn, 0, 3)
    IN  IF ~re_match(<<Cls(Digits, 9, 9), EndAnchor>>, clean_ssn) THEN FALSE
        ELSE IF area \in {<<"0", "0", "0">>, <<"6", "6", "6">>} \/ area[1] = "9" THEN FALSE
        ELSE TRUE

validate_ssn(ssn) ==
    LET clean_ssn == RemoveChars(ssn, {"-"} \cup Whitespace)
        area == Slice(clean_ssn, 0, 3)
        group == Slice(clean_ssn, 3, 5)
        serial == Slice(clean_ssn, 5, 9)
    IN  IF ~re_match(<<Cls(Digits, 9, 9), EndAnchor>>, clean_ssn) THEN FALSE
        ELSE IF area \in {<<"0", "0", "0">>, <<"6", "6", "6">>} \/ area[1] = "9" THEN FALSE
        ELSE IF group = <<"0", "0">> \/ serial = <<"0", "0", "0", "0">> THEN FALSE
        ELSE TRUE

\* the total of luhn_check over card_num[::-1] from 0-based index i on
RECURSIVE LuhnTotal(_, _)
LuhnTotal(reverse_digits, i) ==
    IF i >= Len(reverse_digits) THEN 0
    ELSE LET d == DigitValue(reverse_digits[i + 1])
             n == IF i % 2 = 1
                  THEN (IF 2 * d > 9 THEN ((2 * d) \div 10) + ((2 * d) % 10) ELSE 2 * d)
                  ELSE d
         IN  n + LuhnTotal(reverse_digits, i + 1)

luhn_check(card_num) ==
    LuhnTotal([i \in 1..Len(card_num) |-> card_num[Len(card_num) + 1 - i]], 0) % 10 = 0

\* the value validate_credit_card returns when it returns
validate_credit_card(cc) ==
    LET clean_cc == RemoveChars(cc, {"-"} \cup Whitespace)
    IN  IF ~IsDigitStr(clean_cc) \/ Len(clean_cc) < 13 \/ Len(clean_cc) > 19 THEN FALSE
        ELSE luhn_check(clean_cc)

\* validate_credit_card raises: luhn_check is reached and int(digit) raises
\* ValueError on one of the characters
credit_card_raises(cc) ==
    LET clean_cc == RemoveChars(cc, {"-"} \cup Whitespace)
    IN  /\ IsDigitStr(clean_cc) /\ Len(clean_cc) >= 13 /\ Len(clean_cc) <= 19
        /\ \E i \in 1..Len(clean_cc) : clean_cc[i] \notin Digits

---------------------------------------------------------------------------
(* detectors/regex_detector.py: RegexDetector *)

\* a pattern string that re compiles, as its atoms
Compiled(atoms) == [compiles |-> TRUE, atoms |-> atoms]

\* a pattern string that re.compile rejects with re.error, such as "(" or "[0-9"
InvalidPattern == [compiles |-> FALSE, atoms |-> <<>>]

EmailRegex ==
    <<WordB, Cls(EmailLocalChars, 1, -1), One({"@"}), Cls(EmailDomainChars, 1, -1),
      One({"."}), Cls(Letters \cup {"|"}, 2, -1), WordB>>

PhoneRegex ==
    <<WordB, Grp(<<Opt({"+"}), One({"1"}), Opt({"-", "."} \cup Whitespace)>>, 0, 1),
      Opt({"("}), Cls(Digits, 3, 3), Opt({")"}), Opt({"-", "."} \cup Whitespace),
      Cls(Digits, 3, 3), Opt({"-", "."} \cup Whitespace), Cls(Digits, 4, 4), WordB>>

SsnRegex ==
    <<WordB, Cls(Digits, 3, 3), Opt({"-", "."}), Cls(Digits, 2, 2), Opt({"-", "."}),
      Cls(Digits, 4, 4), WordB>>

CreditCardRegex ==
    <<WordB, Cls(Digits, 4, 4), Opt({"-"} \cup Whitespace), Cls(Digits, 4, 4),
      Opt({"-"} \cup Whitespace), Cls(Digits, 4, 4), Opt({"-"} \cup Whitespace),
      Cls(Digits, 4, 4), WordB>>

IpAddressRegex ==
    <<WordB, Grp(<<Cls(Digits, 1, 3), One({"."})>>, 3, 3), Cls(Digits, 1, 3), WordB>>

NameRegex ==
    <<WordB, One(Letters), Cls(Letters, 1, 15), Cls(Whitespace, 1, -1),
      One(Letters), Cls(Letters, 1, 15), WordB>>

StreetWords ==
    <<Lit(<<"S", "t", "r", "e", "e", "t">>), Lit(<<"S", "t">>),
      Lit(<<"A", "v", "e", "n", "u", "e">>), Lit(<<"A", "v", "e">>),
      Lit(<<"R", "o", "a", "d">>), Lit(<<"R", "d">>),
      Lit(<<"D", "r", "i", "v", "e">>), Lit(<<"D", "r">>),
      Lit(<<"L", "a", "n", "e">>), Lit(<<"L", "n">>),
      Lit(<<"B", "o", "u", "l", "e", "v", "a", "r", "d">>), Lit(<<"B", "l", "v", "d">>),
      Lit(<<"A", "p", "a", "r", "t", "m", "e", "n", "t">>), Lit(<<"A", "p", "t">>)>>

AddressRegex ==
    <<WordB, Cls(Digits, 1, -1), Cls(Whitespace, 1, -1), Cls(Letters \cup Whitespace, 1, -1),
      Alt(StreetWords), WordB>>

DateRegex ==
    <<WordB,
      Alt(<< <<One({"0"}), One(Digits \ {"0"})>>, <<One({"1"}), One({"0", "1", "2"})>> >>),
      One({"-", "/"}),
      Alt(<< <<One({"0"}), One(Digits \ {"0"})>>, <<One({"1", "2"}), One(Digits)>>,
             <<One({"3"}), One({"0", "1"})>> >>),
      One({"-", "/"}),
      Alt(<< <<One({"1"}), One({"9"})>>, <<One({"2"}), One({"0"})>> >>),
      Cls(Digits, 2, 2), WordB>>

DriverLicenseRegex ==
    <<Alt(<< <<WordB, One(Letters), Cls(Digits, 7, 8), WordB>>,
             <<WordB, Cls(Digits, 8, 9), WordB>> >>)>>

PassportRegex == <<WordB, Cls(Letters, 1, 2), Cls(Digits, 6, 9), WordB>>

PatternInfo(t, p, c, v) == [pii_type |-> t, pattern |-> p, confidence |-> c, validate |-> v]

\* self.patterns after RegexDetector.__init__, in dict order
RegexDetectorPatterns ==
    <<PatternInfo("email", Compiled(EmailRegex), 90, TRUE),
      PatternInfo("phone", Compiled(PhoneRegex), 80, TRUE),
      PatternInfo("ssn", Compiled(SsnRegex), 95, TRUE),
      PatternInfo("credit_card", Compiled(CreditCardRegex), 85, TRUE),
      PatternInfo("ip_address", Compiled(IpAddressRegex), 80, TRUE),
      PatternInfo("name", Compiled(NameRegex), 60, FALSE),
      PatternInfo("address", Compiled(AddressRegex), 70, FALSE),
      PatternInfo("date", Compiled(DateRegex), 80, FALSE),
      PatternInfo("driver_license", Compiled(DriverLicenseRegex), 50, FALSE),
      PatternInfo("passport", Compiled(PassportRegex), 70, FALSE)>>

\* DEFAULT_CONFIG.get('pii_types.<t>.enabled', True)
TypeEnabled(t) == t \notin {"passport", "license_plate"}

validate_ip(ip) ==
    LET parts == SplitOn(ip, ".")
    IN  /\ Len(parts) = 4
        /\ \A i \in 1..4 : ParsesAsInt(parts[i]) /\ 0 <= IntOf(parts[i]) /\ IntOf(parts[i]) <= 255

validate_match(pii_type, value) ==
    CASE pii_type = "email" -> validate_email(value)
      [] pii_type = "phone" -> validate_phone(value)
      [] pii_type = "ssn" -> validate_ssn(value)
      [] pii_type = "credit_card" -> validate_credit_card(value)
      [] pii_type = "ip_address" -> validate_ip(value)
      [] OTHER -> TRUE

\* the PIIMatch list of one rule, given the occurrences re.finditer yields
RECURSIVE MatchesOfOccurrences(_, _, _)
MatchesOfOccurrences(txt, info, occs) ==
    IF occs = <<>> THEN <<>>
    ELSE LET match == Head(occs)
             value == Strip(Slice(txt, match.start, match.end))
             rest == MatchesOfOccurrences(txt, info, Tail(occs))
         IN  IF Len(value) < 2 THEN rest
             ELSE IF info.validate /\ ~validate_match(info.pii_type, value) THEN rest
             ELSE <<PIIMatch(info.pii_type, value, match.start, match.end, info.confidence)>>
                    \o rest

find_pattern_matches(txt, info) ==
    MatchesOfOccurrences(txt, info, finditer(info.pattern.atoms, txt))

\* the rules RegexDetector.detect scans: the enabled ones
EnabledRules(ps) == SelectSeq(ps, LAMBDA info : TypeEnabled(info.pii_type))

RECURSIVE DetectLoop(_, _)
DetectLoop(txt, rules) ==
    IF rules = <<>> THEN <<>>
    ELSE find_pattern_matches(txt, Head(rules)) \o DetectLoop(txt, Tail(rules))

\* bug variant: detect scans the rules the detector was constructed with
RegexDetectBuiltin(ps, txt) ==
    IF txt = <<>> THEN [raised |-> "none", matches |-> <<>>]
    ELSE [raised |-> "none",
          matches |-> DetectLoop(txt, EnabledRules(RegexDetectorPatterns))]

\* RegexDetector.detect(text): the exception it raises and the list it returns.
\* re.finditer compiles the pattern string, so a rule whose pattern does not
\* compile makes the call raise re.error when the loop reaches it.
RegexDetect(ps, txt) ==
    IF txt = <<>> THEN [raised |-> "none", matches |-> <<>>]
    ELSE IF \E i \in 1..Len(EnabledRules(ps)) : ~EnabledRules(ps)[i].pattern.compiles
    THEN [raised |-> "re.error", matches |-> <<>>]
    ELSE [raised |-> "none", matches |-> DetectLoop(txt, EnabledRules(ps))]

\* self.patterns[pii_type] = {...}: a new key goes last, an existing key keeps
\* its place
DictSet(ps, info) ==
    IF \E i \in 1..Len(ps) : ps[i].pii_type = info.pii_type
    THEN [i \in 1..Len(ps) |-> IF ps[i].pii_type = info.pii_type THEN info ELSE ps[i]]
    ELSE Append(ps, info)

add_custom_pattern(ps, pii_type, pattern, confidence, validate) ==
    DictSet(ps, PatternInfo(pii_type, pattern, confidence, validate))

remove_pattern(ps, pii_type) == SelectSeq(ps, LAMBDA info : info.pii_type # pii_type)

update_pattern_confidence(ps, pii_type, confidence) ==
    [i \in 1..Len(ps) |->
        IF ps[i].pii_type = pii_type THEN [ps[i] EXCEPT !.confidence = confidence] ELSE ps[i]]

---------------------------------------------------------------------------
(* A RegexDetector on the default configuration: any sequence of registry   *)
(* operations, then a detect call.  detect changes nothing in the detector, *)
(* so a behaviour ends with it.                                             *)

MaxSegments == 3

\* the pieces texts are made of: a blank, an e-mail address, a number, a
\* letter, and a tail the e-mail pattern's last class [A-Z|a-z] takes
TextSegments == {<<" ">>, <<"a", "@", "b", ".", "c", "o">>, <<"1", "2">>, <<"x">>, <<"|", "m">>}

RECURSIVE Concat(_)
Concat(ss) == IF ss = <<>> THEN <<>> ELSE Head(ss) \o Concat(Tail(ss))

SegmentTexts == {Concat(ss) : ss \in SeqsUpTo(TextSegments, MaxSegments)}

\* the pattern strings handed to add_custom_pattern: r'\s\d+', r'\d+' and one
\* that does not compile
CustomPatterns ==
    {Compiled(<<One(Whitespace), Cls(Digits, 1, -1)>>), Compiled(<<Cls(Digits, 1, -1)>>),
     InvalidPattern}

CustomTypes == {"custom", "email"}

RegexInit ==
    /\ text = <<>>
    /\ matches = <<>>
    /\ merged = <<>>
    /\ remerged = <<>>
    /\ anon = NoObject
    /\ method = "None"
    /\ out = <<>>
    /\ pc = "constructed"
    /\ patterns = RegexDetectorPatterns
    /\ raised = "none"
    /\ current_text = <<>>
    /\ clean_text_impl = "none"
    /\ error = "none"
    /\ verdict = NoVerdict
    /\ NoEngine
    /\ NoPipeline

\* RegexDetector.add_custom_pattern(t, p) with the default confidence and validate
AddCustomPattern ==
    /\ pc # "detected"
    /\ \E t \in CustomTypes : \E p \in CustomPatterns :
          patterns' = add_custom_pattern(patterns, t, p, 50, FALSE)
    /\ raised' = "none"
    /\ pc' = "registered"
    /\ UNCHANGED <<text, matches, merged, remerged, anon, method, out,
                   current_text, clean_text_impl, error, verdict, engineVars, pipeline>>

\* RegexDetector.remove_pattern(t)
RemovePattern ==
    /\ pc # "detected"
    /\ \E t \in CustomTypes : patterns' = remove_pattern(patterns, t)
    /\ raised' = "none"
    /\ pc' = "registered"
    /\ UNCHANGED <<text, matches, merged, remerged, anon, method, out,
                   current_text, clean_text_impl, error, verdict, engineVars, pipeline>>

\* RegexDetector.update_pattern_confidence(t, 0.95)
UpdatePatternConfidence ==
    /\ pc # "detected"
    /\ \E t \in CustomTypes : patterns' = update_pattern_confidence(patterns, t, 95)
    /\ raised' = "none"
    /\ pc' = "registered"
    /\ UNCHANGED <<text, matches, merged, remerged, anon, method, out,
                   current_text, clean_text_impl, error, verdict, engineVars, pipeline>>

\* matches = RegexDetector.detect(txt)
Detect ==
    /\ pc # "detected"
    /\ \E txt \in SegmentTexts :
          LET r == RegexDetect(patterns, txt)
          IN  /\ text' = txt
              /\ matches' = r.matches
              /\ raised' = r.raised
    /\ pc' = "detected"
    /\ UNCHANGED <<merged, remerged, anon, method, out, patterns,
                   current_text, clean_text_impl, error, verdict, engineVars, pipeline>>

RegexNext == AddCustomPattern \/ RemovePattern \/ UpdatePatternConfidence \/ Detect

SpecRegex == RegexInit /\ [][RegexNext]_vars

\* C6: every match RegexDetector.detect produces for a text, under any
\* registered rule set including custom patterns, satisfies
\* 0 <= start < end <= len(text) and end - start == len(value).
C6_MatchSpansValue ==
    (pc = "detected" /\ raised = "none") =>
        \A i \in 1..Len(matches) :
            /\ 0 <= matches[i].start
            /\ matches[i].start < matches[i].end
            /\ matches[i].end <= Len(text)
            /\ matches[i].end - matches[i].start = Len(matches[i].value)

\* C9: a custom pattern that does not compile is rejected at registration: no
\* rule whose pattern does not compile is ever in the registry, and no detect
\* call raises the pattern error the registration should have raised.
C9_InvalidPatternRejected ==
    /\ \A i \in 1..Len(patterns) : patterns[i].pattern.compiles
    /\ pc = "detected" => raised # "re.error"

---------------------------------------------------------------------------
(* core/detector.py: PIIDetector *)

DetectorRule(t, p, c) == [pii_type |-> t, pattern |-> p, confidence |-> c]

\* self.patterns and self.confidence_scores after PIIDetector.__init__: the
\* two dicts hold the same keys in the same order
PIIDetectorPatterns ==
    <<DetectorRule("email", Compiled(EmailRegex), 90),
      DetectorRule("phone", Compiled(PhoneRegex), 80),
      DetectorRule("ssn", Compiled(SsnRegex), 95),
      DetectorRule("credit_card", Compiled(CreditCardRegex), 85),
      DetectorRule("ip_address", Compiled(IpAddressRegex), 80)>>

\* [m for m in ms if m.confidence >= threshold]
confidence_filter_strict(ms, threshold) == SelectSeq(ms, LAMBDA m : m.confidence > threshold)

confidence_filter(ms, threshold) == SelectSeq(ms, LAMBDA m : m.confidence >= threshold)

\* ' '.join(text.split())
RECURSIVE JoinWords(_, _)
JoinWords(s, pending) ==
    IF s = <<>> THEN <<>>
    ELSE IF IsSpace(Head(s)) THEN JoinWords(Tail(s), TRUE)
    ELSE (IF pending THEN <<" ">> ELSE <<>>) \o <<Head(s)>> \o JoinWords(Tail(s), FALSE)

NormalizeWhitespace(s) == JoinWords(LStrip(s), FALSE)

\* TextProcessor.clean_text is called by PIIDetector.detect and defined
\* nowhere in the sources: the call raises AttributeError, or, in a build
\* that has the method, returns the text as it is or whitespace-normalized.
CleanTextImpls == {"AttributeError", "identity", "normalize"}

clean_text(impl, txt) == IF impl = "normalize" THEN NormalizeWhitespace(txt) ELSE txt

\* re.sub(r'[^\d]', '', value)
DigitsOf(value) == SelectSeq(value, LAMBDA c : c \in Digits)

is_valid_match(pii_type, value) ==
    LET clean_value == Strip(value)
        digits == DigitsOf(clean_value)
        at_parts == SplitOn(clean_value, "@")
    IN  CASE pii_type = "email" ->
               Contains(clean_value, "@") /\ Contains(at_parts[Len(at_parts)], ".")
          [] pii_type = "phone" -> 10 <= Len(digits) /\ Len(digits) <= 11
          [] pii_type = "ssn" ->
               Len(digits) = 9 /\ digits # <<"0", "0", "0", "0", "0", "0", "0", "0", "0">>
          [] pii_type = "credit_card" -> 13 <= Len(digits) /\ Len(digits) <= 16
          [] pii_type = "ip_address" -> validate_ip(clean_value)
          [] OTHER -> TRUE

RECURSIVE RuleMatches(_, _, _)
RuleMatches(txt, rule, occs) ==
    IF occs = <<>> THEN <<>>
    ELSE LET match == Head(occs)
             group == Slice(txt, match.start, match.end)
             rest == RuleMatches(txt, rule, Tail(occs))
         IN  IF is_valid_match(rule.pii_type, group)
             THEN <<PIIMatch(rule.pii_type, group, match.start, match.end, rule.confidence)>>
                    \o rest
             ELSE rest

RECURSIVE ScanLoop(_, _)
ScanLoop(txt, rules) ==
    IF rules = <<>> THEN <<>>
    ELSE RuleMatches(txt, Head(rules), finditer(Head(rules).pattern.atoms, txt))
            \o ScanLoop(txt, Tail(rules))

\* PIIDetector.detect(text): the exception it raises and the list it returns
PIIDetectorDetect(impl, ps, txt) ==
    IF txt = <<>> \/ Strip(txt) = <<>>
    THEN [raised |-> "none", merged |-> <<>>, matches |-> <<>>]
    ELSE IF impl = "AttributeError"
    THEN [raised |-> "AttributeError", merged |-> <<>>, matches |-> <<>>]
    ELSE IF \E i \in 1..Len(EnabledRules(ps)) : ~EnabledRules(ps)[i].pattern.compiles
    THEN [raised |-> "re.error", merged |-> <<>>, matches |-> <<>>]
    ELSE LET cleaned_text == clean_text(impl, txt)
             filtered_matches ==
                 merge_overlapping_matches(ScanLoop(cleaned_text, EnabledRules(ps)))
         IN  [raised |-> "none", merged |-> filtered_matches,
              matches |-> confidence_filter(filtered_matches, ConfidenceThreshold)]

\* PIIDetector.add_pattern(pii_type, pattern, confidence)
add_pattern(ps, pii_type, pattern, confidence) ==
    DictSet(ps, DetectorRule(pii_type, pattern, confidence))

---------------------------------------------------------------------------
(* core/pipeline.py: PIIPipeline with its default steps *)

\* _postprocess_step: the first match of each (pii_type, start, end, value)
RECURSIVE Deduplicate(_, _)
Deduplicate(ms, seen) ==
    IF ms = <<>> THEN <<>>
    ELSE LET m == Head(ms)
             match_key == <<m.pii_type, m.start, m.end, m.value>>
         IN  IF match_key \in seen THEN Deduplicate(Tail(ms), seen)
             ELSE <<m>> \o Deduplicate(Tail(ms), seen \cup {match_key})

postprocess_step(ms) == Deduplicate(SortedByStart(ms), {})

validate_step(ms) == confidence_filter(ms, ConfidenceThreshold)

\* PIIPipeline.process(text): the processing context it returns
PipelineProcess(impl, txt) ==
    IF txt = <<>>
    THEN [error |-> "No text provided", current_text |-> <<>>, merged |-> <<>>,
          matches |-> <<>>]
    ELSE LET cleaned_text == NormalizeWhitespace(txt)
             d == PIIDetectorDetect(impl, PIIDetectorPatterns, cleaned_text)
         IN  IF d.raised # "none"
             THEN [error |-> "Pipeline failed at step detect",
                   current_text |-> cleaned_text, merged |-> <<>>, matches |-> <<>>]
             ELSE [error |-> "none", current_text |-> cleaned_text, merged |-> d.merged,
                   matches |-> postprocess_step(validate_step(d.matches))]

---------------------------------------------------------------------------
(* The detection front ends on the default configuration: a PIIEngine with  *)
(* its PIIDetector, and a PIIPipeline.  Custom patterns are registered,     *)
(* then one front end is called on a text; the reports and statistics the   *)
(* engine formats from the matches are left out.                            *)

\* confidences below, at and above the default threshold
CustomConfidences == {30, 40, 50}

FrontEndInit ==
    /\ text = <<>>
    /\ matches = <<>>
    /\ merged = <<>>
    /\ remerged = <<>>
    /\ anon = NoObject
    /\ method = "None"
    /\ out = <<>>
    /\ pc = "constructed"
    /\ patterns = PIIDetectorPatterns
    /\ raised = "none"
    /\ current_text = <<>>
    /\ clean_text_impl \in CleanTextImpls
    /\ error = "none"
    /\ verdict = NoVerdict
    /\ NoEngine
    /\ NoPipeline

FrontEndIdle == pc \in {"constructed", "registered"}

\* PIIDetector.add_pattern("custom", p, c), also reached through
\* PIIEngine.add_custom_pattern
AddPattern ==
    /\ FrontEndIdle
    /\ \E p \in CustomPatterns : \E c \in CustomConfidences :
          patterns' = add_pattern(patterns, "custom", p, c)
    /\ raised' = "none"
    /\ pc' = "registered"
    /\ UNCHANGED <<text, matches, merged, remerged, anon, method, out,
                   current_text, clean_text_impl, error, verdict, engineVars, pipeline>>

\* matches = PIIDetector.detect(txt)
DetectorDetect ==
    /\ FrontEndIdle
    /\ \E txt \in SegmentTexts :
          LET r == PIIDetectorDetect(clean_text_impl, patterns, txt)
          IN  /\ text' = txt
              /\ matches' = r.matches
              /\ merged' = r.merged
              /\ raised' = r.raised
    /\ pc' = "detect"
    /\ UNCHANGED <<remerged, anon, method, out, patterns,
                   current_text, clean_text_impl, error, verdict, engineVars, pipeline>>

\* result = PIIEngine.process_text(txt, anonymize): matches is
\* result['matches'], out is result['anonymized_text'] (None is <<>>)
ProcessText ==
    /\ FrontEndIdle
    /\ \E txt \in SegmentTexts : \E anonymize \in BOOLEAN :
          LET r == PIIDetectorDetect(clean_text_impl, patterns, txt)
              anonymizes == anonymize /\ r.raised = "none" /\ r.matches # <<>>
          IN  /\ text' = txt
              /\ matches' = r.matches
              /\ raised' = r.raised
              /\ anon' = IF anonymizes THEN Anonymizer("mask") ELSE anon
              /\ out' = IF anonymizes
                        THEN anonymize_text(Anonymizer("mask"), txt, r.matches, "None")
                        ELSE <<>>
    /\ pc' = "process_text"
    /\ UNCHANGED <<merged, remerged, method, patterns,
                   current_text, clean_text_impl, error, verdict, engineVars, pipeline>>

\* context = PIIPipeline.process(txt): matches is context['matches']
Process ==
    /\ FrontEndIdle
    /\ \E txt \in SegmentTexts :
          LET r == PipelineProcess(clean_text_impl, txt)
          IN  /\ text' = txt
              /\ matches' = r.matches
              /\ merged' = r.merged
              /\ current_text' = r.current_text
              /\ error' = r.error
    /\ raised' = "none"
    /\ pc' = "process"
    /\ UNCHANGED <<remerged, anon, method, out, patterns, clean_text_impl, verdict,
                   engineVars, pipeline>>

FrontEndNext == AddPattern \/ DetectorDetect \/ ProcessText \/ Process

SpecFrontEnd == FrontEndInit /\ [][FrontEndNext]_vars

\* C7: for every match that PIIDetector.detect, PIIEngine.process_text or
\* PIIPipeline.process reports for an input text, start and end are offsets
\* into that input text: text[start:end] == value.
C7_OffsetsIntoOriginalText ==
    pc \in {"detect", "process_text", "process"} =>
        \A i \in 1..Len(matches) :
            Slice(text, matches[i].start, matches[i].end) = matches[i].value

\* the types whose candidates the detectors validate
ValidatedTypes == {"email", "phone", "ssn", "credit_card", "ip_address"}

\* C11: every match PIIDetector.detect returns whose type declares validation
\* (email, phone, ssn, credit_card, ip_address) has a value that the type's
\* field validator accepts.
C11_MatchesPassFieldValidator ==
    (pc = "detect" /\ raised = "none") =>
        \A i \in 1..Len(matches) :
            matches[i].pii_type \in ValidatedTypes =>
                validate_match(matches[i].pii_type, matches[i].value)

\* the positions of ms whose confidence reaches the threshold
AtOrAbove(ms, threshold) == {i \in 1..Len(ms) : ms[i].confidence >= threshold}

\* ks keeps exactly the entries of ms at or above the threshold, each as it is
\* and in the order of ms
KeepsExactly(ks, ms, threshold) ==
    LET idx == AtOrAbove(ms, threshold)
    IN  /\ Len(ks) = Cardinality(idx)
        /\ \A i \in idx : ks[Cardinality({j \in idx : j <= i})] = ms[i]

\* C12: PIIDetector.detect and the pipeline (validate step) return a merged
\* match iff its confidence >= detection.confidence_threshold: nothing below
\* the threshold is returned, everything at or above it is, in the same order
\* and unmodified.
C12_ConfidenceFilter ==
    (pc \in {"detect", "process"} /\ raised = "none" /\ error = "none") =>
        /\ \A i \in 1..Len(matches) : matches[i].confidence >= ConfidenceThreshold
        /\ KeepsExactly(matches, merged, ConfidenceThreshold)

\* detect has dropped a match below the threshold and kept another
C12_Witness ==
    /\ pc = "detect"
    /\ raised = "none"
    /\ matches # <<>>
    /\ Len(merged) > Len(matches)

\* the encounter order of a match list: ascending start, equal starts in
\* input order
EncounterOrder(ms) ==
    LET Before(i, j) == ms[i].start < ms[j].start \/ (ms[i].start = ms[j].start /\ i < j)
        At(k) == CHOOSE i \in 1..Len(ms) :
                    Cardinality({j \in 1..Len(ms) : Before(j, i)}) = k - 1
    IN  [k \in 1..Len(ms) |-> ms[At(k)]]

\* C13: in merge_overlapping_matches a match that conflicts with the current
\* accumulator at equal confidence is dropped and the accumulator stays, where
\* matches are encountered by ascending start, equal starts in input order;
\* the output is the merge of that encounter order.
C13_TieKeepsAccumulator ==
    pc = "merged" =>
        LET s == EncounterOrder(matches)
        IN  /\ merged = merge_overlapping_matches(s)
            /\ \A k \in 2..Len(s) :
                  LET before == merge_overlapping_matches(SubSeq(s, 1, k - 1))
                      accumulator == before[Len(before)]
                  IN  (s[k].start <= accumulator.end
                         /\ s[k].confidence = accumulator.confidence)
                      => merge_overlapping_matches(SubSeq(s, 1, k)) = before

\* two different matches with the same start and confidence: the first in
\* input order is the one kept
C13_Witness ==
    /\ pc = "merged"
    /\ Len(matches) = 2
    /\ matches[1].start = matches[2].start
    /\ matches[1].confidence = matches[2].confidence
    /\ matches[1] # matches[2]
    /\ merged = <<matches[1]>>

---------------------------------------------------------------------------
(* Anonymizers built from configurations that differ in                     *)
(* anonymization.mask_character, preserve_length and preserve_format.       *)

\* the configured mask_character: any string the configuration holds
MaskCharacters == {<<"*">>, <<"#">>, <<"X", "X">>, <<>>}

MaskInit ==
    /\ text \in AnonTexts
    /\ matches \in SeqsUpTo(AnonMatchesOver(text), MaxAnonMatches)
    /\ anon \in {[Anonymizer("mask") EXCEPT !.mask_char = c, !.preserve_length = l,
                                            !.preserve_format = f] :
                    c \in MaskCharacters, l \in BOOLEAN, f \in BOOLEAN}
    /\ merged = <<>>
    /\ remerged = <<>>
    /\ method = "None"
    /\ out = <<>>
    /\ pc = "ready"
    /\ NoDetector

SpecMask == MaskInit /\ [][AnonymizeText]_vars

\* C14: with strategy mask, preserve_length = true and preserve_format =
\* false, the replacement of every match value is exactly as long as the
\* value, for every configured mask_character.
C14_MaskPreservesLength ==
    (/\ pc = "anonymized"
     /\ effective_method(anon, method) = "mask"
     /\ anon.preserve_length
     /\ ~anon.preserve_format) =>
        \A i \in 1..Len(matches) :
            Len(anonymize_value(anon, matches[i], "mask")) = Len(matches[i].value)

\* C15: with strategy synthetic the replacement of a match depends only on
\* its pii_type: two matches of the same type receive the same replacement,
\* whatever their values.
C15_SyntheticIgnoresValue ==
    (pc = "anonymized" /\ method = "synthetic") =>
        \A i, j \in 1..Len(matches) :
            matches[i].pii_type = matches[j].pii_type =>
                anonymize_value(anon, matches[i], "synthetic")
                    = anonymize_value(anon, matches[j], "synthetic")

\* C16: with strategy hash the replacement of a match is a function of its
\* value and the salt only: matches with the same value get the same tag
\* whatever their type and position, and the tag is the one a fresh Anonymizer
\* (same salt, no earlier call) produces.
C16_HashDependsOnValueOnly ==
    (pc = "anonymized" /\ method = "hash") =>
        \A i, j \in 1..Len(matches) :
            /\ matches[i].value = matches[j].value =>
                  anonymize_value(anon, matches[i], "hash")
                      = anonymize_value(anon, matches[j], "hash")
            /\ anonymize_value(anon, matches[i], "hash")
                  = anonymize_value(Anonymizer("mask"), matches[i], "hash")

\* after a set_replacement_pattern call, two matches of different type at
\* different places with the same value have been hashed
C16_Witness ==
    /\ pc = "anonymized"
    /\ method = "hash"
    /\ anon.replacement_patterns # DefaultReplacementPatterns
    /\ \E i, j \in 1..Len(matches) :
          /\ matches[i].value = matches[j].value
          /\ matches[i].pii_type # matches[j].pii_type
          /\ matches[i].start # matches[j].start

---------------------------------------------------------------------------
(* Validator.validate_credit_card called on card-number-like strings: four  *)
(* or five blocks of characters with one separator style, and a tail.       *)

CardBlocks ==
    {<<"4", "1", "1", "1">>, <<"1", "1", "1", "1">>, <<"1", "1", "1", "2">>,
     <<"5", "1", "0", "5">>, <<"5", "1", "0", "0">>, <<"9", "7", "sup2", "8">>}

CardSeparators == {<<>>, <<"-">>, <<" ">>}

CardFifthBlocks == {<<>>, <<"7">>, <<"1", "1", "1", "1">>, <<"x">>}

CardInputs ==
    {b1 \o sep \o b2 \o sep \o b3 \o sep \o b4 \o b5 :
        b1 \in CardBlocks \cup {<<>>}, b2 \in CardBlocks, b3 \in CardBlocks, b4 \in CardBlocks,
        b5 \in CardFifthBlocks, sep \in CardSeparators}

ValidatorInit(inputs) ==
    /\ text \in inputs
    /\ matches = <<>>
    /\ merged = <<>>
    /\ remerged = <<>>
    /\ anon = NoObject
    /\ method = "None"
    /\ out = <<>>
    /\ pc = "input"
    /\ NoDetector

\* verdict = Validator.validate_credit_card(text)
ValidateCreditCard ==
    /\ pc = "input"
    /\ verdict' = IF credit_card_raises(text)
                  THEN [raised |-> "ValueError", value |-> FALSE]
                  ELSE [raised |-> "none", value |-> validate_credit_card(text)]
    /\ pc' = "credit_card"
    /\ UNCHANGED <<text, matches, merged, remerged, anon, method, out,
                   patterns, raised, current_text, clean_text_impl, error,
                   engineVars, pipeline>>

SpecCreditCard == ValidatorInit(CardInputs) /\ [][ValidateCreditCard]_vars

\* the Luhn sum of a digit string: from the rightmost digit, every second
\* digit doubled and reduced by 9 when the doubled value exceeds 9
LuhnSum(ds) ==
    LET Term(i) ==
            LET d == DigitValue(ds[Len(ds) + 1 - i])
            IN  IF i % 2 = 0 THEN (IF 2 * d > 9 THEN 2 * d - 9 ELSE 2 * d) ELSE d
        Sum[i \in 0..Len(ds)] == IF i = 0 THEN 0 ELSE Sum[i - 1] + Term(i)
    IN  Sum[Len(ds)]

LuhnReference(cc) ==
    LET ds == RemoveChars(cc, {"-"} \cup Whitespace)
    IN  /\ \A i \in 1..Len(ds) : ds[i] \in Digits
        /\ Len(ds) >= 13 /\ Len(ds) <= 19
        /\ LuhnSum(ds) % 10 = 0

\* C17: Validator.validate_credit_card agrees with the reference Luhn rule on
\* every input: it returns, and accepts exactly the strings that, separators
\* stripped, are 13 to 19 digits with a Luhn sum divisible by 10.
C17_LuhnAgreesWithReference ==
    pc = "credit_card" =>
        /\ verdict.raised = "none"
        /\ verdict.value = LuhnReference(text)

---------------------------------------------------------------------------
(* Validator.validate_ssn called on SSN-like strings: an area, a group and  *)
(* a serial with separators between them, and a tail.                       *)

SsnAreas == {<<"0", "0", "0">>, <<"6", "6", "6">>, <<"9", "0", "0">>, <<"1", "2", "3">>,
             <<"0", "7", "8">>, <<"1", "2">>}
SsnGroups == {<<"0", "0">>, <<"4", "5">>, <<"0", "1">>}
SsnSerials == {<<"0", "0", "0", "0">>, <<"6", "7", "8", "9">>, <<"0", "0", "0", "1">>}
SsnSeparators == {<<>>, <<"-">>, <<" ">>, <<".">>}
SsnTails == {<<>>, <<"x">>, <<"1">>, <<"\n">>}

SsnInputs ==
    {area \o sep1 \o group \o sep2 \o serial \o tail :
        area \in SsnAreas, sep1 \in SsnSeparators, group \in SsnGroups,
        sep2 \in SsnSeparators, serial \in SsnSerials, tail \in SsnTails}

\* verdict = Validator.validate_ssn(text)
ValidateSsn ==
    /\ pc = "input"
    /\ verdict' = [raised |-> "none", value |-> validate_ssn(text)]
    /\ pc' = "ssn"
    /\ UNCHANGED <<text, matches, merged, remerged, anon, method, out,
                   patterns, raised, current_text, clean_text_impl, error,
                   engineVars, pipeline>>

SpecSsn == ValidatorInit(SsnInputs) /\ [][ValidateSsn]_vars

\* the rule of the claim, on the value with hyphens and whitespace stripped
SsnReference(ssn) ==
    LET ds == RemoveChars(ssn, {"-"} \cup Whitespace)
    IN  /\ Len(ds) = 9
        /\ \A i \in 1..9 : ds[i] \in Digits
        /\ SubSeq(ds, 1, 3) \notin {<<"0", "0", "0">>, <<"6", "6", "6">>}
        /\ ds[1] # "9"
        /\ SubSeq(ds, 4, 5) # <<"0", "0">>
        /\ SubSeq(ds, 6, 9) # <<"0", "0", "0", "0">>

---------------------------------------------------------------------------
(* Validator.validate_phone called on phone-number-like strings: a prefix,  *)
(* a separator, a national number and a tail.                               *)

PhonePrefixes == {<<>>, <<"+">>, <<"1">>, <<"+", "1">>, <<"+", "4", "4">>, <<"4", "4">>}
PhoneSeparatorStyles == {<<>>, <<" ">>, <<"-">>, <<".">>}
PhoneBodies ==
    {<<"5", "5", "5", "1", "2", "3", "4", "5", "6", "7">>,
     <<"(", "5", "5", "5", ")", " ", "1", "2", "3", "-", "4", "5", "6", "7">>,
     <<"5", "5", "5", "-", "1", "2", "3", "-", "4", "5", "6", "7">>,
     <<"5", "5", "5", "1", "2", "3", "4", "5", "6">>,
     <<"5", "5", "5", "1", "2", "3", "4", "5", "6", "7", "8">>}
PhoneTails == {<<>>, <<"x">>, <<"9">>}

PhoneInputs ==
    {prefix \o sep \o body \o tail :
        prefix \in PhonePrefixes, sep \in PhoneSeparatorStyles,
        body \in PhoneBodies, tail \in PhoneTails}

\* verdict = Validator.validate_phone(text)
ValidatePhone ==
    /\ pc = "input"
    /\ verdict' = [raised |-> "none", value |-> validate_phone(text)]
    /\ pc' = "phone"
    /\ UNCHANGED <<text, matches, merged, remerged, anon, method, out,
                   patterns, raised, current_text, clean_text_impl, error,
                   engineVars, pipeline>>

SpecPhone == ValidatorInit(PhoneInputs) /\ [][ValidatePhone]_vars

AllDigits(s) == \A i \in 1..Len(s) : s[i] \in Digits

\* the rule of the claim: the three accepted forms of the value with the
\* separators - . ( ) and whitespace stripped
PhoneReference(phone) ==
    LET d == RemoveChars(phone, {"-", ".", "(", ")"} \cup Whitespace)
    IN  \/ AllDigits(d) /\ Len(d) = 10
        \/ AllDigits(d) /\ Len(d) = 11 /\ d[1] = "1"
        \/ /\ d # <<>> /\ d[1] = "+"
           /\ AllDigits(Tail(d)) /\ Len(d) - 1 >= 10 /\ Len(d) - 1 <= 15

\* C19: Validator.validate_phone accepts a value iff, separators stripped, it
\* is exactly 10 digits, or 11 digits starting with 1, or a '+' followed by 10
\* to 15 digits; a '+' and 12 digits is accepted.
C19_PhoneRule ==
    pc = "phone" => verdict.value = PhoneReference(text)

---------------------------------------------------------------------------
(* A RegexDetector whose registry keeps changing between detect calls: the  *)
(* caller holds the list the last detect call returned while it adds,       *)
(* removes and updates rules and calls detect again.                        *)

\* '12 a@b.co', ' 12' and 'x'
RegistryTexts ==
    {<<"1", "2", " ", "a", "@", "b", ".", "c", "o">>, <<" ", "1", "2">>, <<"x">>}

\* matches = RegexDetector.detect(txt), the detector staying in use
DetectReturn ==
    /\ \E txt \in RegistryTexts :
          LET r == RegexDetect(patterns, txt)
          IN  /\ text' = txt
              /\ matches' = r.matches
              /\ raised' = r.raised
    /\ pc' = "returned"
    /\ UNCHANGED <<merged, remerged, anon, method, out, patterns,
                   current_text, clean_text_impl, error, verdict, engineVars, pipeline>>

RegistryNext == AddCustomPattern \/ RemovePattern \/ UpdatePatternConfidence \/ DetectReturn

SpecRegistry == RegexInit /\ [][RegistryNext]_vars

\* the registry entries detect scans for a type
RegistryEntries(t) ==
    {i \in 1..Len(patterns) : patterns[i].pii_type = t /\ TypeEnabled(t)}

\* the call that just returned used the registry as it is now: every match
\* carries the type and confidence of a current rule, and a current rule with
\* the pattern \d+ matched the digits of the text
UsesCurrentRegistry ==
    (pc = "returned" /\ raised = "none") =>
        /\ \A i \in 1..Len(matches) :
              \E k \in RegistryEntries(matches[i].pii_type) :
                  matches[i].confidence = patterns[k].confidence
        /\ \A k \in 1..Len(patterns) :
              (/\ patterns[k].pattern = Compiled(<<Cls(Digits, 1, -1)>>)
               /\ k \in RegistryEntries(patterns[k].pii_type)
               /\ \E j \in 1..Len(text) : text[j] \in Digits)
              => \E i \in 1..Len(matches) :
                    /\ matches[i].pii_type = patterns[k].pii_type
                    /\ matches[i].confidence = patterns[k].confidence
                    /\ matches[i].value = <<"1", "2">>

\* a registry operation leaves the list an earlier detect call returned as it was
RegistryOperation == AddCustomPattern \/ RemovePattern \/ UpdatePatternConfidence

\* C20: after any sequence of add_custom_pattern, remove_pattern and
\* update_pattern_confidence calls, the next RegexDetector.detect call uses
\* exactly the current registry (no match of a removed type, matches of an
\* added type with its registered confidence, an updated confidence on later
\* matches), and the lists earlier detect calls returned are not altered.
C20_DetectUsesCurrentRegistry ==
    /\ []UsesCurrentRegistry
    /\ [][RegistryOperation => matches' = matches]_vars

\* a detect call returned matches, then a type was added and its confidence
\* updated and the e-mail rule removed, and the next detect call on a text
\* with a number and an address returned a match of the added type
C20_Witness ==
    /\ pc = "returned"
    /\ raised = "none"
    /\ \A k \in 1..Len(patterns) : patterns[k].pii_type # "email"
    /\ \E k \in 1..Len(patterns) :
          patterns[k].pii_type = "custom" /\ patterns[k].confidence = 95
    /\ \E j \in 1..Len(text) : text[j] = "@"
    /\ \E i \in 1..Len(matches) :
          matches[i].pii_type = "custom" /\ matches[i].confidence = 95

---------------------------------------------------------------------------
(* Empty inputs: a RegexDetector and an Anonymizer side by side, the        *)
(* detector called on the empty text after any registry operations, the     *)
(* anonymizer called with an empty text or an empty match list.             *)

\* the match lists handed over with an empty text: matches of some other text
StaleMatches == SeqsUpTo(MatchesOver(<<"a">>, AnonTypes, {90}), 1)

EmptyInputInit ==
    /\ text = <<>>
    /\ matches = <<>>
    /\ merged = <<>>
    /\ remerged = <<>>
    /\ anon \in {Anonymizer(d) : d \in DefaultStrategies}
    /\ method = "None"
    /\ out = <<>>
    /\ pc = "constructed"
    /\ patterns = RegexDetectorPatterns
    /\ raised = "none"
    /\ current_text = <<>>
    /\ clean_text_impl = "none"
    /\ error = "none"
    /\ verdict = NoVerdict
    /\ NoEngine
    /\ NoPipeline

\* matches = RegexDetector.detect('')
DetectEmpty ==
    /\ pc \in {"constructed", "registered"}
    /\ LET r == RegexDetect(patterns, <<>>)
       IN  /\ text' = <<>>
           /\ matches' = r.matches
           /\ raised' = r.raised
    /\ pc' = "detected"
    /\ UNCHANGED <<merged, remerged, anon, method, out, patterns,
                   current_text, clean_text_impl, error, verdict, engineVars, pipeline>>

\* out = anon.anonymize_text(txt, ms, m) with an empty txt or an empty ms
AnonymizeEmpty ==
    /\ pc = "detected"
    /\ \E txt \in AnonTexts : \E ms \in StaleMatches : \E m \in AnonMethods :
          /\ txt = <<>> \/ ms = <<>>
          /\ text' = txt
          /\ matches' = ms
          /\ method' = m
          /\ out' = anonymize_text(anon, txt, ms, m)
    /\ pc' = "anonymized"
    /\ UNCHANGED <<merged, remerged, anon, patterns, raised,
                   current_text, clean_text_impl, error, verdict, engineVars, pipeline>>

EmptyInputNext ==
    \/ AddCustomPattern
    \/ RemovePattern
    \/ UpdatePatternConfidence
    \/ DetectEmpty
    \/ AnonymizeEmpty

SpecEmptyInput == EmptyInputInit /\ [][EmptyInputNext]_vars

\* C21: empty inputs are no-ops: detect on the empty text returns the empty
\* sequence, and anonymize_text returns its text argument unchanged whenever
\* the match list is empty or the text is empty, for every strategy.
C21_EmptyInputsAreNoOps ==
    /\ (pc = "detected" /\ text = <<>>) => (raised = "none" /\ matches = <<>>)
    /\ (pc = "anonymized" /\ (text = <<>> \/ matches = <<>>)) => out = text

\* detect on the empty text returned although a registered pattern does not
\* compile, and then the hash strategy was run on an empty text with a match
C21_Witness ==
    /\ pc = "anonymized"
    /\ \E k \in 1..Len(patterns) : ~patterns[k].pattern.compiles
    /\ text = <<>>
    /\ matches # <<>>
    /\ method = "hash"
    /\ out = <<>>

---------------------------------------------------------------------------
(* Touching spans in the overlap resolver *)

\* C22: merge_overlapping_matches treats touching spans as conflicting: a
\* match whose start equals the accumulator's end is resolved against it (only
\* the higher-confidence one is kept), only a match whose start is strictly
\* greater than the accumulator's end starts a new output entry, and every
\* adjacent output pair has a.end < b.start.
C22_TouchingSpansConflict ==
    pc = "merged" =>
        LET s == EncounterOrder(matches)
        IN  /\ \A i \in 1..(Len(merged) - 1) : merged[i].end < merged[i + 1].start
            /\ \A k \in 2..Len(s) :
                  LET before == merge_overlapping_matches(SubSeq(s, 1, k - 1))
                      after == merge_overlapping_matches(SubSeq(s, 1, k))
                      accumulator == before[Len(before)]
                  IN  /\ (Len(after) = Len(before) + 1) <=> (s[k].start > accumulator.end)
                      /\ s[k].start = accumulator.end =>
                            after = [before EXCEPT ![Len(before)] =
                                        IF s[k].confidence > accumulator.confidence
                                        THEN s[k] ELSE accumulator]

\* two touching matches, the second of higher confidence: it alone is returned
C22_Witness ==
    /\ pc = "merged"
    /\ Len(matches) = 2
    /\ matches[2].start = matches[1].end
    /\ matches[2].confidence > matches[1].confidence
    /\ merged = <<matches[2]>>

---------------------------------------------------------------------------
(* Thresholding and merging in either order *)

\* confidence thresholds around the confidences of the merge inputs: the
\* configured one (below all), two between them, one above all
Thresholds == {ConfidenceThreshold, 60, 92, 96}

\* final_matches of PIIDetector.detect: the merge, then the threshold
MergeThenFilter(ms, t) == confidence_filter(merge_overlapping_matches(ms), t)

\* the other order: the threshold, then the merge
FilterThenMerge(ms, t) == merge_overlapping_matches(confidence_filter(ms, t))

\* C23 (as stated): there are match sets M and thresholds t for which
\* filtering by confidence >= t after merge_overlapping_matches gives a
\* different result than filtering before it.
C23_OrdersDiffer ==
    \E ms \in SeqsUpTo(MatchesOver(text, {"email"}, Confidences), MaxMatches) :
        \E t \in Thresholds : MergeThenFilter(ms, t) # FilterThenMerge(ms, t)

\* C23 (as amended): the order of thresholding and merging does not matter:
\* for every match list and threshold, filtering by confidence >= t after
\* merge_overlapping_matches gives the same list as filtering before it.
C23_OrdersAgree ==
    pc = "merged" =>
        \A t \in Thresholds :
            confidence_filter(merged, t) = FilterThenMerge(matches, t)

\* a match below the threshold won an overlap and is in the merged list, and
\* a match at or above the threshold is in it too
C23_Witness ==
    /\ pc = "merged"
    /\ Len(merged) < Len(matches)
    /\ \E i, j \in 1..Len(merged) :
          /\ merged[i].confidence < 60
          /\ merged[j].confidence >= 60
          /\ \E k \in 1..Len(matches) :
                /\ matches[k] # merged[i]
                /\ Overlaps(matches[k], merged[i])

---------------------------------------------------------------------------
(* Format-preserving masks: a RegexDetector finds the identifiers of a text *)
(* and an Anonymizer whose configuration sets preserve_format masks them.   *)

\* card numbers, SSNs and phone numbers in the punctuation styles the
\* detection patterns admit
FormatTexts ==
    {<<"4", "1", "1", "1", " ", "1", "1", "1", "1", " ", "1", "1", "1", "1", " ", "1", "1", "1", "1">>,
     <<"4", "1", "1", "1", "-", "1", "1", "1", "1", "-", "1", "1", "1", "1", "-", "1", "1", "1", "1">>,
     <<"4", "1", "1", "1", "1", "1", "1", "1", "1", "1", "1", "1", "1", "1", "1", "1">>,
     <<"1", "2", "3", "-", "4", "5", "-", "6", "7", "8", "9">>,
     <<"1", "2", "3", "4", "5", "6", "7", "8", "9">>,
     <<"(", "5", "5", "5", ")", " ", "1", "2", "3", "-", "4", "5", "6", "7">>,
     <<"1", " ", "(", "5", "5", "5", ")", " ", "1", "2", "3", " ", "4", "5", "6", "7">>,
     <<"5", "5", "5", "-", "1", "2", "3", "-", "4", "5", "6", "7">>,
     <<"5", "5", "5", ".", "1", "2", "3", ".", "4", "5", "6", "7">>}

FormatInit ==
    /\ text \in FormatTexts
    /\ matches = <<>>
    /\ merged = <<>>
    /\ remerged = <<>>
    /\ anon \in {[Anonymizer("mask") EXCEPT !.mask_char = c, !.preserve_length = l,
                                            !.preserve_format = TRUE] :
                    c \in MaskCharacters, l \in BOOLEAN}
    /\ method = "None"
    /\ out = <<>>
    /\ pc = "constructed"
    /\ patterns = RegexDetectorPatterns
    /\ raised = "none"
    /\ current_text = <<>>
    /\ clean_text_impl = "none"
    /\ error = "none"
    /\ verdict = NoVerdict
    /\ NoEngine
    /\ NoPipeline

\* matches = RegexDetector.detect(text), to be handed to the anonymizer
FormatDetect ==
    /\ pc = "constructed"
    /\ LET r == RegexDetect(patterns, text)
       IN  /\ matches' = r.matches
           /\ raised' = r.raised
    /\ pc' = "ready"
    /\ UNCHANGED <<text, merged, remerged, anon, method, out, patterns,
                   current_text, clean_text_impl, error, verdict, engineVars, pipeline>>

FormatNext == FormatDetect \/ AnonymizeText

SpecFormat == FormatInit /\ [][FormatNext]_vars

\* C24: with strategy mask and preserve_format = true, the placeholder emitted
\* for an ssn, phone or credit_card value matches the value's punctuation
\* style: it contains a hyphen only if the value contains a hyphen and
\* parentheses only if the value contains parentheses, for every value the
\* corresponding detection pattern can produce.
C24_PlaceholderMatchesPunctuation ==
    (pc = "anonymized" /\ effective_method(anon, method) = "mask" /\ anon.preserve_format)
    => \A i \in 1..Len(matches) :
          matches[i].pii_type \in {"ssn", "phone", "credit_card"} =>
              LET placeholder == anonymize_value(anon, matches[i], "mask")
              IN  /\ Contains(placeholder, "-") => Contains(matches[i].value, "-")
                  /\ (Contains(placeholder, "(") \/ Contains(placeholder, ")"))
                        => (Contains(matches[i].value, "(")
                              /\ Contains(matches[i].value, ")"))

---------------------------------------------------------------------------
(* Anonymizers built from configurations that set anonymization.hash_salt   *)

\* the salts a configuration sets: the one src/test.py sets, shortened, and
\* another
ConfiguredSalts == {<<"p", "_", "h", "a", "s", "h">>, <<"s">>}

\* the anonymization section of a configuration with hash_salt set
AnonymizationConfig(salt) ==
    [default_strategy |-> "mask", mask_character |-> <<"*">>, preserve_length |-> TRUE,
     preserve_format |-> FALSE, hash_salt |-> salt]

\* Anonymizer.__init__(config): the fields read from the configuration, the
\* salt assigned from a literal, and self.config
AnonymizerFromConfig(config) ==
    [default_method |-> config.default_strategy,
     mask_char |-> config.mask_character,
     preserve_length |-> config.preserve_length,
     preserve_format |-> config.preserve_format,
     replacement_patterns |-> DefaultReplacementPatterns,
     hash_salt |-> <<"p", "l", "a", "t", "y", "p", "i", "i", "_", "s", "a", "l", "t",
                     "_", "2", "0", "2", "4">>,
     config |-> config]

SaltInit ==
    /\ text \in AnonTexts
    /\ matches \in SeqsUpTo(AnonMatchesOver(text), 1)
    /\ anon \in {AnonymizerFromConfig(AnonymizationConfig(salt)) : salt \in ConfiguredSalts}
    /\ merged = <<>>
    /\ remerged = <<>>
    /\ method = "None"
    /\ out = <<>>
    /\ pc = "ready"
    /\ NoDetector

SpecSalt == SaltInit /\ [][AnonymizeText]_vars

\* the tag of the digest of value + salt
SaltedTag(value, salt) ==
    LET h == Digest(value \o salt, 7)
    IN  <<"[", "H", "A", "S", "H", ":">> \o <<HexDigit(h \div 16), HexDigit(h)>> \o <<"]">>

\* C25: the salt used by the hash strategy is the policy's hash_salt: an
\* Anonymizer built from a configuration whose anonymization.hash_salt is s
\* hashes value + s, so changing the configured salt changes which digest is
\* emitted for a value.
C25_HashUsesConfiguredSalt ==
    (pc = "anonymized" /\ method = "hash") =>
        \A i \in 1..Len(matches) :
            anonymize_value(anon, matches[i], "hash")
                = SaltedTag(matches[i].value, anon.config.hash_salt)

---------------------------------------------------------------------------
(* Discarded matches of the overlap resolver *)

\* the spans overlap or touch: the conflict test of the merge loop, either way
Conflicts(a, b) == a.start <= b.end /\ b.start <= a.end

\* C26: every input match that merge_overlapping_matches discards is
\* justified by a survivor: it conflicts (its span overlaps or touches) with
\* some match present in the output whose confidence is greater than or equal
\* to its own.
C26_DiscardJustifiedBySurvivor ==
    pc = "merged" =>
        \A i \in 1..Len(matches) :
            ~Survives(matches[i], merged) =>
                \E o \in 1..Len(merged) :
                    /\ Conflicts(matches[i], merged[o])
                    /\ merged[o].confidence >= matches[i].confidence

---------------------------------------------------------------------------
(* core/engine.py: a PIIEngine constructed with or without an explicit      *)
(* Config, its detector and anonymizer, and the module-level DEFAULT_CONFIG *)
(* that every object constructed without a config refers to.                *)

\* Config.set(key, value) on the keys the detectors and the anonymizer read
config_set(config, key, value) ==
    CASE key = "detection.confidence_threshold" ->
            [config EXCEPT !.confidence_threshold = value]
      [] key = "pii_types.email.enabled" ->
            [config EXCEPT !.disabled = IF value = "False" THEN @ \cup {"email"}
                                        ELSE @ \ {"email"}]
      [] key = "anonymization.default_strategy" ->
            [config EXCEPT !.default_strategy = value]

\* the one-key dicts handed to update_config, as <<key, value>>
ConfigUpdates ==
    {<<"detection.confidence_threshold", 90>>,
     <<"pii_types.email.enabled", "False">>,
     <<"anonymization.default_strategy", "redact">>}

\* PIIEngine.__init__(config): self.config is the argument, or DEFAULT_CONFIG
\* itself (the same object, not a copy) when there is none
PIIEngine(config) ==
    IF config = NoObject THEN [config |-> "DEFAULT_CONFIG"]
    ELSE [config |-> "explicit", explicit |-> config]

\* the contents of the Config object the engine's self.config refers to
EngineConfig ==
    IF engine.config = "DEFAULT_CONFIG" THEN DEFAULT_CONFIG ELSE engine.explicit

\* PIIDetector.detect under a configuration: the rules of types the
\* configuration disables are skipped, the threshold is read at call time
DetectUnder(config, impl, ps, txt) ==
    LET r == PIIDetectorDetect(impl,
                 SelectSeq(ps, LAMBDA rule : rule.pii_type \notin config.disabled), txt)
    IN  [raised |-> r.raised,
         matches |-> confidence_filter(r.merged, config.confidence_threshold)]

\* PIIEngine.process_text(txt, anonymize): result['matches'], the engine's
\* anonymizer after the call and result['anonymized_text'] (None is <<>>)
process_text(config, impl, ps, a, txt, anonymize) ==
    IF txt = <<>> THEN [raised |-> "none", matches |-> <<>>, anonymizer |-> a, out |-> <<>>]
    ELSE LET r == DetectUnder(config, impl, ps, txt)
             anonymizes == anonymize /\ r.raised = "none" /\ r.matches # <<>>
             anonymizer == IF anonymizes /\ a = NoObject
                           THEN Anonymizer(config.default_strategy) ELSE a
         IN  [raised |-> r.raised, matches |-> r.matches, anonymizer |-> anonymizer,
              out |-> IF anonymizes THEN anonymize_text(anonymizer, txt, r.matches, "None")
                      ELSE <<>>]

\* the texts handed to the engine: '12 a@b.co', ' 12' and the empty text
EngineTexts ==
    {<<"1", "2", " ", "a", "@", "b", ".", "c", "o">>, <<" ", "1", "2">>, <<>>}

EngineInit ==
    /\ text = <<>>
    /\ matches = <<>>
    /\ merged = <<>>
    /\ remerged = <<>>
    /\ anon = NoObject
    /\ method = "None"
    /\ out = <<>>
    /\ pc = "constructed"
    /\ patterns = PIIDetectorPatterns
    /\ raised = "none"
    /\ current_text = <<>>
    /\ clean_text_impl \in CleanTextImpls
    /\ error = "none"
    /\ verdict = NoVerdict
    /\ DEFAULT_CONFIG = DefaultConfig
    /\ engine \in {PIIEngine(NoObject), PIIEngine(DefaultConfig)}
    /\ NoPipeline

\* PIIEngine.add_custom_pattern("custom", p) with the default confidence
EngineAddCustomPattern ==
    /\ \E p \in CustomPatterns : patterns' = add_pattern(patterns, "custom", p, 50)
    /\ raised' = "none"
    /\ pc' = "registered"
    /\ UNCHANGED <<text, matches, merged, remerged, anon, method, out,
                   current_text, clean_text_impl, error, verdict, engineVars, pipeline>>

\* PIIEngine.update_config({key: value}): Config.set on self.config, then a
\* new PIIDetector and no anonymizer
UpdateConfig ==
    /\ \E kv \in ConfigUpdates :
          IF engine.config = "DEFAULT_CONFIG"
          THEN /\ DEFAULT_CONFIG' = config_set(DEFAULT_CONFIG, kv[1], kv[2])
               /\ engine' = engine
          ELSE /\ engine' = [engine EXCEPT !.explicit = config_set(@, kv[1], kv[2])]
               /\ DEFAULT_CONFIG' = DEFAULT_CONFIG
    /\ patterns' = PIIDetectorPatterns
    /\ anon' = NoObject
    /\ raised' = "none"
    /\ pc' = "updated"
    /\ UNCHANGED <<text, matches, merged, remerged, method, out,
                   current_text, clean_text_impl, error, verdict, pipeline>>

\* result = PIIEngine.process_text(txt, anonymize)
EngineProcessText ==
    /\ \E txt \in EngineTexts : \E anonymize \in BOOLEAN :
          \E r \in {process_text(EngineConfig, clean_text_impl, patterns, anon, txt, anonymize)} :
              /\ text' = txt
              /\ matches' = r.matches
              /\ raised' = r.raised
              /\ anon' = r.anonymizer
              /\ out' = r.out
    /\ pc' = "process_text"
    /\ UNCHANGED <<merged, remerged, method, patterns,
                   current_text, clean_text_impl, error, verdict, engineVars, pipeline>>

\* results = PIIEngine.process_batch([t1, t2], anonymize): text, matches and
\* out are those of the last result; the call raises where a process_text
\* call raises
EngineProcessBatch ==
    /\ \E t1, t2 \in EngineTexts : \E anonymize \in BOOLEAN :
          \E r1 \in {process_text(EngineConfig, clean_text_impl, patterns, anon, t1, anonymize)} :
              IF r1.raised # "none"
              THEN /\ raised' = r1.raised
                   /\ UNCHANGED <<text, matches, anon, out>>
              ELSE \E r2 \in {process_text(EngineConfig, clean_text_impl, patterns,
                                            r1.anonymizer, t2, anonymize)} :
                      /\ text' = t2
                      /\ matches' = r2.matches
                      /\ raised' = r2.raised
                      /\ anon' = r2.anonymizer
                      /\ out' = r2.out
    /\ pc' = "process_batch"
    /\ UNCHANGED <<merged, remerged, method, patterns,
                   current_text, clean_text_impl, error, verdict, engineVars, pipeline>>

EngineNext ==
    \/ EngineAddCustomPattern
    \/ UpdateConfig
    \/ EngineProcessText
    \/ EngineProcessBatch

SpecEngine == EngineInit /\ [][EngineNext]_vars

\* C27: a custom pattern registered through PIIEngine.add_custom_pattern
\* stays in effect for every later detection on that engine, whatever
\* operations intervene (process_text, process_batch, update_config): after
\* any of them the engine's detector still holds the pattern and its
\* confidence.
C27_CustomPatternPersists ==
    [][pc' \in {"process_text", "process_batch", "updated"} =>
          \A k \in 1..Len(patterns) :
              patterns[k].pii_type = "custom" =>
                  \E j \in 1..Len(patterns') : patterns'[j] = patterns[k]]_vars

\* C28: PIIEngine.update_config on one engine changes only that engine's
\* configuration: the threshold, enabled types and anonymization policy seen
\* by any other PIIEngine, PIIDetector or Anonymizer constructed without an
\* explicit config, which are those of DEFAULT_CONFIG, are unchanged by it.
C28_UpdateConfigFrame ==
    [][pc' = "updated" => DEFAULT_CONFIG' = DEFAULT_CONFIG]_vars

---------------------------------------------------------------------------
(* core/pipeline.py: the step list of a PIIPipeline, changed through        *)
(* add_step, remove_step, enable_step and disable_step, and run by process. *)
(* A step function is known by what it does with the context it is handed:  *)
(* it records its result and returns the context, it raises, or it records  *)
(* its result and returns nothing.                                          *)

MaxSteps == 5

StepFunctions == {"returns", "raises", "returns_none"}

\* PipelineStep(name, function, enabled)
PipelineStep(name, function, enabled) ==
    [name |-> name, function |-> function, enabled |-> enabled]

\* _setup_default_steps: the detect step raises in a build whose
\* TextProcessor has no clean_text
DefaultSteps(impl) ==
    <<PipelineStep("preprocess", "returns", TRUE),
      PipelineStep("detect", IF impl = "AttributeError" THEN "raises" ELSE "returns", TRUE),
      PipelineStep("validate", "returns", TRUE),
      PipelineStep("postprocess", "returns", TRUE)>>

add_step(steps, name, function, enabled) ==
    Append(steps, PipelineStep(name, function, enabled))

remove_step(steps, name) == SelectSeq(steps, LAMBDA step : step.name # name)

\* enable_step / disable_step: the first step of that name, then break
set_step_enabled(steps, name, enabled) ==
    LET named == {k \in 1..Len(steps) : steps[k].name = name}
    IN  IF named = {} THEN steps
        ELSE LET first == CHOOSE k \in named : \A j \in named : k <= j
             IN  [steps EXCEPT ![first].enabled = enabled]

\* the processing context process starts from, and Python's None
NewContext == [metadata |-> <<>>, error |-> "none"]
NoneContext == [none |-> TRUE]

\* f"Pipeline failed at step {step.name}: ..."
FailedAt(name) ==
    CASE name = "preprocess" -> "Pipeline failed at step preprocess"
      [] name = "detect" -> "Pipeline failed at step detect"
      [] name = "validate" -> "Pipeline failed at step validate"
      [] name = "postprocess" -> "Pipeline failed at step postprocess"
      [] OTHER -> "Pipeline failed at step audit"

\* the for loop of PIIPipeline.process.  A step handed None raises when it
\* touches the context; the except clause then assigns into
\* processing_context, which raises TypeError when that is None.
RECURSIVE RunSteps(_, _)
RunSteps(steps, processing_context) ==
    IF steps = <<>> THEN [raised |-> "none", context |-> processing_context]
    ELSE LET step == Head(steps)
         IN  IF ~step.enabled THEN RunSteps(Tail(steps), processing_context)
             ELSE IF step.function = "raises" \/ processing_context = NoneContext
             THEN IF processing_context = NoneContext
                  THEN [raised |-> "TypeError", context |-> processing_context]
                  ELSE [raised |-> "none",
                        context |-> [processing_context EXCEPT !.error = FailedAt(step.name)]]
             ELSE IF step.function = "returns_none"
             THEN RunSteps(Tail(steps), NoneContext)
             ELSE RunSteps(Tail(steps),
                      [processing_context EXCEPT !.metadata = Append(@, step.name)])

\* PIIPipeline.process(txt)
process(steps, txt) ==
    IF txt = <<>> THEN [raised |-> "none", context |-> [error |-> "No text provided"]]
    ELSE RunSteps(steps, NewContext)

PipelineInit ==
    /\ text = <<>>
    /\ matches = <<>>
    /\ merged = <<>>
    /\ remerged = <<>>
    /\ anon = NoObject
    /\ method = "None"
    /\ out = <<>>
    /\ pc = "constructed"
    /\ patterns = <<>>
    /\ raised = "none"
    /\ current_text = <<>>
    /\ clean_text_impl \in CleanTextImpls
    /\ error = "none"
    /\ verdict = NoVerdict
    /\ NoEngine
    /\ pipeline = [steps |-> DefaultSteps(clean_text_impl), results |-> [empty |-> TRUE]]

pipelineFrame == <<text, matches, merged, remerged, anon, method, out, patterns,
                   current_text, clean_text_impl, error, verdict, engineVars>>

\* pipeline.add_step(name, function, enabled)
AddStep ==
    /\ Len(pipeline.steps) < MaxSteps
    /\ \E name \in {"audit", "detect"} : \E function \in StepFunctions : \E enabled \in BOOLEAN :
          pipeline' = [pipeline EXCEPT !.steps = add_step(@, name, function, enabled)]
    /\ raised' = "none"
    /\ pc' = "configured"
    /\ UNCHANGED pipelineFrame

\* pipeline.remove_step(name)
RemoveStep ==
    /\ \E name \in {"postprocess", "audit"} :
          pipeline' = [pipeline EXCEPT !.steps = remove_step(@, name)]
    /\ raised' = "none"
    /\ pc' = "configured"
    /\ UNCHANGED pipelineFrame

\* pipeline.enable_step(name)
EnableStep ==
    /\ \E name \in {"detect", "audit"} :
          pipeline' = [pipeline EXCEPT !.steps = set_step_enabled(@, name, TRUE)]
    /\ raised' = "none"
    /\ pc' = "configured"
    /\ UNCHANGED pipelineFrame

\* pipeline.disable_step(name)
DisableStep ==
    /\ \E name \in {"detect", "audit"} :
          pipeline' = [pipeline EXCEPT !.steps = set_step_enabled(@, name, FALSE)]
    /\ raised' = "none"
    /\ pc' = "configured"
    /\ UNCHANGED pipelineFrame

\* context = pipeline.process(txt): self.results is the returned context
\* unless the text is empty or the call raises
RunPipeline ==
    /\ \E txt \in {<<>>, <<"x">>} :
          LET r == process(pipeline.steps, txt)
          IN  /\ text' = txt
              /\ raised' = r.raised
              /\ error' = IF r.raised = "none" /\ r.context # NoneContext
                          THEN r.context.error ELSE "none"
              /\ pipeline' = IF txt = <<>> \/ r.raised # "none" THEN pipeline
                             ELSE [pipeline EXCEPT !.results = r.context]
    /\ pc' = "processed"
    /\ UNCHANGED <<matches, merged, remerged, anon, method, out, patterns,
                   current_text, clean_text_impl, verdict, engineVars>>

PipelineNext == AddStep \/ RemoveStep \/ EnableStep \/ DisableStep \/ RunPipeline

SpecPipeline == PipelineInit /\ [][PipelineNext]_vars

\* the names of the enabled steps, in list order
EnabledStepNames ==
    LET enabled == SelectSeq(pipeline.steps, LAMBDA step : step.enabled)
    IN  [k \in 1..Len(enabled) |-> enabled[k].name]

\* C29: PIIPipeline.process runs the enabled steps in list order, each at most
\* once, and never runs a disabled or removed step; when a step raises, no
\* later step runs, the returned context carries an 'error' entry naming the
\* failed step and keeps the results of the steps that completed, and the
\* call itself does not raise.
C29_StepsInOrderErrorsContained ==
    (pc = "processed" /\ text # <<>>) =>
        /\ raised = "none"
        /\ pipeline.results # NoneContext =>
              LET ran == pipeline.results.metadata
              IN  /\ Len(ran) <= Len(EnabledStepNames)
                  /\ ran = SubSeq(EnabledStepNames, 1, Len(ran))
                  /\ IF pipeline.results.error = "none"
                     THEN ran = EnabledStepNames
                     ELSE /\ Len(ran) < Len(EnabledStepNames)
                          /\ pipeline.results.error = FailedAt(EnabledStepNames[Len(ran) + 1])

---------------------------------------------------------------------------
(* SSN spellings *)

\* the whole string is one match of the ssn detection pattern
SsnSpelling(ssn) == re_match(SsnRegex \o <<EndAnchor>>, ssn)

\* C30: SSN validation is independent of the separator: for any 9 digits, the
\* spellings the ssn detection pattern admits (no separator, '-' separators,
\* '.' separators) receive the same verdict from Validator.validate_ssn, the
\* verdict of the digits alone, so RegexDetector keeps or drops an SSN
\* candidate regardless of how it is punctuated.
C30_SsnSeparatorIndependent ==
    (pc = "ssn" /\ SsnSpelling(text)) =>
        verdict.value = validate_ssn(RemoveChars(text, {"-", "."}))

=============================================================================
